---- MODULE Spec2Model ----
(***************************************************************************)
(* State-machine model of src/bot.py, the Telegram business-account        *)
(* monitor.  The model follows the SQLite backend, the one the program     *)
(* runs on when FIREBASE_DB_URL is unset (its default); storage and the    *)
(* outbound Bot API are taken to answer without raising unless an action   *)
(* says otherwise.  One update is handled at a time (_process_update is    *)
(* awaited by main before the next update is looked at), so every action   *)
(* below is one whole call of _process_update.                             *)
(*                                                                         *)
(* Identifiers are small stand-ins: user and chat ids are 1..3, with       *)
(* ADMIN_ID = 1 standing for the administrator's id 6201234513 (which      *)
(* does not fit a TLC integer).  Time is the wall clock in whole seconds.  *)
(***************************************************************************)
EXTENDS Integers, Sequences, FiniteSets, TLC

\* ------------------------------------------------------------ constants
ADMIN_ID == 1
SUPPORT_CHAT_ID == 9
RECENT_NOTIFY_TTL_SEC == 120
MAX_MESSAGES_PER_CHAT == 2
MAX_MEDIA_FILES == 2
Dur7d == 604800
Dur14d == 1209600
Dur30d == 2592000

\* ------------------------------------------------------------ bounds
MaxSteps == 3
MaxFiles == 3
MaxMsgId == 3
MaxStepsNotify == 5
MaxStepsCache == 3
MaxStepsDispatch == 2
MaxStepsBlocked == 3
MaxStepsMutual == 3
MaxStepsPay == 2
MaxStepsConnect == 4
MaxStepsFlows == 3
MaxStepsCallback == 2
MaxStepsDeletes == 4
MaxUpdates == 3
MaxHandled == 4

UserIds == {ADMIN_ID, 2, 3}
ConnIds == {"c1", "c2"}
MsgIds == 1..MaxMsgId
MediaKinds == {"photo", "video", "video_note", "document"}

STARS_CURRENCY == "XTR"
STARS_DURATIONS == [p \in {"7d", "14d", "30d"} |->
                      IF p = "7d" THEN Dur7d ELSE IF p = "14d" THEN Dur14d ELSE Dur30d]
DEFAULT_STARS_PRICES == [p \in {"7d", "14d", "30d"} |->
                      IF p = "7d" THEN 15 ELSE IF p = "14d" THEN 25 ELSE 45]

\* ------------------------------------------------------------ state
VARIABLES
    now,                  \* wall clock, seconds
    kv,                   \* table kv: key -> value
    free_users,           \* table free_users: set of user ids
    subscriptions,        \* table subscriptions: user id -> paid_until
    users,                \* table users: user id -> [blocked, bot_user]
    business_connections, \* table business_connections: id -> [owner_user_id, notified]
    business_bind_state,  \* table business_bind_state: user ids with pending = 1
    support_state,        \* table support_state: user ids with pending = 1
    broadcast_state,      \* table broadcast_state: user ids with pending = 1
    access_state,         \* table access_state: user id -> kind, rows with pending = 1
    owner_chats,          \* table owner_chats: set of <<owner_user_id, chat_id>>
    messages,             \* table messages: <<chat_id, message_id>> -> [payload, created_at]
    media,                \* table media: <<chat_id, message_id>> -> [kind, path, created_at]
    forwarded,            \* table forwarded: set of <<chat_id, message_id, tag>>
    files,                \* files present in MEDIA_DIR
    nfile,                \* number of files downloaded so far (names the next file)
    OWNER_ID,             \* module global OWNER_ID, 0 for None
    _RECENT_NOTIFY,       \* module global _RECENT_NOTIFY: key -> time of the last notify
    eff,                  \* what the last handled update did, in order
    update,               \* the last handled update
    nsteps,               \* number of steps taken
    offset,               \* main(): offset of the next getUpdates, 0 for None
    updates,              \* main(): what is left of the batch being processed
    inbox,                \* the updates Telegram holds for the bot, oldest first
    handled               \* main(): update_id and outcome of every update processed

vars == <<now, kv, free_users, subscriptions, users, business_connections,
          business_bind_state, support_state, broadcast_state, access_state,
          owner_chats, messages, media, forwarded, files, nfile, OWNER_ID,
          _RECENT_NOTIFY, eff, update, nsteps, offset, updates, inbox, handled>>

\* ------------------------------------------------------------ helpers
Max(a, b) == IF a > b THEN a ELSE b

Upsert(f, k, v) == [x \in (DOMAIN f) \cup {k} |-> IF x = k THEN v ELSE f[x]]
Remove(f, k) == [x \in (DOMAIN f) \ {k} |-> f[x]]
EmptyTable == [x \in {} |-> 0]

\* One entry of eff.  op names the call; the other fields are its arguments
\* or results, 0 and "" where the call has none:
\*   send           to, a = what is sent, chat/mid = the message it is about,
\*                  b = old text and c = new text of an edit notice,
\*                  b = deleted text and c = media kind of a delete notice
\*   sub_extend     to = user, t1 = paid_until read, t2 = paid_until written,
\*                  mid = seconds
\*   put_message, delete_message          chat, mid
\*   set_media, delete_media, unlink      chat, mid, a = kind, t1 = path
\*   forwarded_set  to, mid
\*   log_event      to = user, a = action, chat, mid
\*   set_pending    to = user, a = the flag ("access", "support", "broadcast"),
\*                  b = "1" or "0"
\*   kv_set         a = key, t1 = value
\*   answer_callback  a = the query id, b = "blocked_alert" for the alert,
\*                  c = "raised" when the call failed
\*   redispatch     to = sender, a = the command of the synthetic callback, b = its id
Eff(op) == [op |-> op, to |-> 0, chat |-> 0, mid |-> 0, a |-> "", b |-> "", c |-> "",
            t1 |-> 0, t2 |-> 0]

Log(s, e) == [s EXCEPT !.eff = Append(@, e)]

Send(s, to, what) == Log(s, [Eff("send") EXCEPT !.to = to, !.a = what])

\* The in-memory state and the tables as one record, so that the handlers
\* can be written as functions from state to state.
St == [now |-> now, kv |-> kv, free_users |-> free_users,
       subscriptions |-> subscriptions, users |-> users,
       business_connections |-> business_connections,
       business_bind_state |-> business_bind_state,
       support_state |-> support_state, broadcast_state |-> broadcast_state,
       access_state |-> access_state, owner_chats |-> owner_chats,
       messages |-> messages, media |-> media, forwarded |-> forwarded,
       files |-> files, nfile |-> nfile, OWNER_ID |-> OWNER_ID,
       _RECENT_NOTIFY |-> _RECENT_NOTIFY, eff |-> <<>>, ret |-> FALSE, tie |-> "asc",
       ack_ok |-> TRUE]

Becomes(s) ==
    /\ now' = s.now
    /\ kv' = s.kv
    /\ free_users' = s.free_users
    /\ subscriptions' = s.subscriptions
    /\ users' = s.users
    /\ business_connections' = s.business_connections
    /\ business_bind_state' = s.business_bind_state
    /\ support_state' = s.support_state
    /\ broadcast_state' = s.broadcast_state
    /\ access_state' = s.access_state
    /\ owner_chats' = s.owner_chats
    /\ messages' = s.messages
    /\ media' = s.media
    /\ forwarded' = s.forwarded
    /\ files' = s.files
    /\ nfile' = s.nfile
    /\ OWNER_ID' = s.OWNER_ID
    /\ _RECENT_NOTIFY' = s._RECENT_NOTIFY
    /\ eff' = s.eff

\* A handler that returns from _process_update marks the state; so does an
\* exception that leaves _process_update (main catches and logs it).
Return(s) == [s EXCEPT !.ret = TRUE]
Raise(s, what) == Return(Log(s, [Eff("raise") EXCEPT !.a = what]))

\* ------------------------------------------------------------ storage: access
_db_get_paid_mode(s) ==
    IF "paid_mode" \in DOMAIN s.kv THEN s.kv["paid_mode"] \in {"1", "true", "yes"} ELSE FALSE

_db_set_paid_mode(s, enabled) ==
    [s EXCEPT !.kv = Upsert(@, "paid_mode", IF enabled THEN "1" ELSE "0")]

_db_is_free_user(s, user_id) == user_id \in s.free_users

_db_set_free_user(s, user_id, enabled) ==
    [s EXCEPT !.free_users = IF enabled THEN @ \cup {user_id} ELSE @ \ {user_id}]

_db_sub_get_paid_until(s, user_id) ==
    IF user_id \in DOMAIN s.subscriptions THEN s.subscriptions[user_id] ELSE 0

_db_sub_extend_ResetBase(s, user_id, seconds) ==
    LET new_until == s.now + seconds
    IN  Log([s EXCEPT !.subscriptions = Upsert(@, user_id, new_until)],
            [Eff("sub_extend") EXCEPT !.to = user_id, !.mid = seconds,
                                      !.t1 = _db_sub_get_paid_until(s, user_id),
                                      !.t2 = new_until])

\* The state after _db_sub_extend; the value it returns is the t2 of the
\* sub_extend entry it logs.
_db_sub_extend(s, user_id, seconds) ==
    LET cur == _db_sub_get_paid_until(s, user_id)
        base == IF cur > s.now THEN cur ELSE s.now
        new_until == base + seconds
    IN  Log([s EXCEPT !.subscriptions = Upsert(@, user_id, new_until)],
            [Eff("sub_extend") EXCEPT !.to = user_id, !.mid = seconds,
                                      !.t1 = cur, !.t2 = new_until])

_has_active_subscription_NoStrict(s, user_id) ==
    \/ user_id = ADMIN_ID
    \/ ~_db_get_paid_mode(s)
    \/ _db_is_free_user(s, user_id)
    \/ _db_sub_get_paid_until(s, user_id) >= s.now

_has_active_subscription(s, user_id) ==
    IF user_id = ADMIN_ID THEN TRUE
    ELSE IF ~_db_get_paid_mode(s) THEN TRUE
    ELSE IF _db_is_free_user(s, user_id) THEN TRUE
    ELSE _db_sub_get_paid_until(s, user_id) > s.now

\* ------------------------------------------------------------ storage: users
NoUser == [blocked |-> FALSE, bot_user |-> FALSE]
UserRow(s, user_id) == IF user_id \in DOMAIN s.users THEN s.users[user_id] ELSE NoUser

\* u is the "from" of a payload: a user id, 0 when the payload has none.
_db_touch_user(s, u) ==
    IF u = 0 THEN s
    ELSE [s EXCEPT !.users = Upsert(@, u, UserRow(s, u))]

_db_is_bot_user(s, user_id) == UserRow(s, user_id).bot_user

_db_mark_bot_user(s, user_id) ==
    [s EXCEPT !.users = Upsert(@, user_id, [UserRow(s, user_id) EXCEPT !.bot_user = TRUE])]

_db_is_blocked(s, user_id) == UserRow(s, user_id).blocked

\* The administrator's row taken at its word.
_is_blocked_effective_AdminToo(s, user_id) == _db_is_blocked(s, user_id)

_is_blocked_effective(s, user_id) ==
    IF user_id = ADMIN_ID THEN FALSE ELSE _db_is_blocked(s, user_id)

_db_set_blocked(s, user_id, blocked) ==
    [s EXCEPT !.users = Upsert(@, user_id, [UserRow(s, user_id) EXCEPT !.blocked = blocked])]

_db_list_bot_user_ids(s) ==
    {u \in DOMAIN s.users : s.users[u].bot_user /\ ~s.users[u].blocked}

\* ------------------------------------------------------------ storage: ownership
\* 0 stands for None.
_db_get_owner_by_connection(s, cid) ==
    IF cid \in DOMAIN s.business_connections
    THEN s.business_connections[cid].owner_user_id ELSE 0

_db_set_business_connection(s, cid, owner_user_id) ==
    [s EXCEPT !.business_connections =
        Upsert(@, cid,
               IF cid \in DOMAIN @
               THEN [@[cid] EXCEPT !.owner_user_id = owner_user_id]
               ELSE [owner_user_id |-> owner_user_id, notified |-> FALSE])]

UpsertSafeLog(s, cid, new_owner, old_owner, r) ==
    Log(s, [Eff("upsert_safe") EXCEPT !.to = new_owner, !.a = cid, !.t1 = old_owner,
                                      !.b = IF r THEN "True" ELSE "False"])

_db_upsert_business_connection_safe_NoOldCheck(s, cid, new_owner) ==
    IF cid \notin DOMAIN s.business_connections
    THEN UpsertSafeLog(_db_set_business_connection(s, cid, new_owner), cid, new_owner, 0, TRUE)
    ELSE LET old_owner == s.business_connections[cid].owner_user_id
         IN  IF old_owner = new_owner \/ ~_db_is_bot_user(s, new_owner)
             THEN UpsertSafeLog(s, cid, new_owner, old_owner, FALSE)
             ELSE UpsertSafeLog(
                    [s EXCEPT !.business_connections[cid] =
                        [owner_user_id |-> new_owner, notified |-> FALSE]],
                    cid, new_owner, old_owner, TRUE)

\* The state after _db_upsert_business_connection_safe; the value it
\* returns is the b of the upsert_safe entry it logs (t1 is the owner it
\* found, 0 when the connection had no row).
_db_upsert_business_connection_safe(s, cid, new_owner) ==
    IF cid \notin DOMAIN s.business_connections
    THEN UpsertSafeLog(
           [s EXCEPT !.business_connections =
               Upsert(@, cid, [owner_user_id |-> new_owner, notified |-> FALSE])],
           cid, new_owner, 0, TRUE)
    ELSE LET old_owner == s.business_connections[cid].owner_user_id
         IN  IF old_owner = new_owner
             THEN UpsertSafeLog(s, cid, new_owner, old_owner, FALSE)
             ELSE IF old_owner # ADMIN_ID /\ _db_is_bot_user(s, old_owner)
             THEN UpsertSafeLog(s, cid, new_owner, old_owner, FALSE)
             ELSE IF ~_db_is_bot_user(s, new_owner)
             THEN UpsertSafeLog(s, cid, new_owner, old_owner, FALSE)
             ELSE UpsertSafeLog(
                    [s EXCEPT !.business_connections[cid] =
                        [owner_user_id |-> new_owner, notified |-> FALSE]],
                    cid, new_owner, old_owner, TRUE)

\* A mark that is never found set.
_db_mark_connection_notified_Always(s, cid) ==
    IF cid \notin DOMAIN s.business_connections THEN [s |-> s, r |-> FALSE]
    ELSE [s |-> [s EXCEPT !.business_connections[cid].notified = TRUE], r |-> TRUE]

\* [s, r]: the state after _db_mark_connection_notified and what it returns.
_db_mark_connection_notified(s, cid) ==
    IF cid \notin DOMAIN s.business_connections THEN [s |-> s, r |-> FALSE]
    ELSE IF s.business_connections[cid].notified THEN [s |-> s, r |-> FALSE]
    ELSE [s |-> [s EXCEPT !.business_connections[cid].notified = TRUE], r |-> TRUE]

_db_business_bind_set_pending(s, user_id, pending) ==
    [s EXCEPT !.business_bind_state = IF pending THEN @ \cup {user_id} ELSE @ \ {user_id}]

_db_business_bind_is_pending(s, user_id) == user_id \in s.business_bind_state

_db_business_bind_clear(s, user_id) ==
    [s EXCEPT !.business_bind_state = @ \ {user_id}]

_db_count_business_connections_for_owner(s, owner_user_id) ==
    Cardinality({c \in DOMAIN s.business_connections :
                    s.business_connections[c].owner_user_id = owner_user_id})

_db_owner_chat_add(s, owner_user_id, chat_id) ==
    [s EXCEPT !.owner_chats = @ \cup {<<owner_user_id, chat_id>>}]

_db_owner_chat_has(s, owner_user_id, chat_id) == <<owner_user_id, chat_id>> \in s.owner_chats

_db_owner_chat_count(s, owner_user_id) ==
    Cardinality({p \in s.owner_chats : p[1] = owner_user_id})

_notify_recipients_for_chat(s, owner_id, chat_id) ==
    (IF owner_id # 0 THEN {owner_id} ELSE {})
    \cup (IF owner_id # 0 /\ _db_is_bot_user(s, chat_id) /\ _db_owner_chat_has(s, chat_id, owner_id)
          THEN {chat_id} ELSE {})

\* A payload carries its connection id in the field cid, "" when it has none.
_extract_business_connection_id(obj) == obj.cid

_target_owner_for_business_Fallback(s, obj) ==
    LET cid == _extract_business_connection_id(obj)
    IN  IF cid # "" /\ _db_get_owner_by_connection(s, cid) # 0
        THEN _db_get_owner_by_connection(s, cid)
        ELSE ADMIN_ID

_target_owner_for_business(s, obj) ==
    LET cid == _extract_business_connection_id(obj)
    IN  IF cid # "" THEN _db_get_owner_by_connection(s, cid) ELSE 0

\* ------------------------------------------------------------ storage: pending flags
SetPendingLog(s, user_id, flow, pending) ==
    Log(s, [Eff("set_pending") EXCEPT !.to = user_id, !.a = flow,
                                      !.b = IF pending THEN "1" ELSE "0"])

_db_access_set_pending(s, user_id, pending, kind) ==
    SetPendingLog(
        [s EXCEPT !.access_state = IF pending THEN Upsert(@, user_id, kind)
                                   ELSE Remove(@, user_id)],
        user_id, "access", pending)

\* "" stands for None.
_db_access_get_pending(s, user_id) ==
    IF user_id \in DOMAIN s.access_state THEN s.access_state[user_id] ELSE ""

_db_support_set_pending(s, user_id, pending) ==
    SetPendingLog(
        [s EXCEPT !.support_state = IF pending THEN @ \cup {user_id} ELSE @ \ {user_id}],
        user_id, "support", pending)

_db_support_is_pending(s, user_id) == user_id \in s.support_state

_db_broadcast_set_pending(s, user_id, pending) ==
    SetPendingLog(
        [s EXCEPT !.broadcast_state = IF pending THEN @ \cup {user_id} ELSE @ \ {user_id}],
        user_id, "broadcast", pending)

_db_broadcast_is_pending(s, user_id) == user_id \in s.broadcast_state

_db_log_event(s, user_id, action, chat_id, message_id) ==
    Log(s, [Eff("log_event") EXCEPT !.to = user_id, !.a = action, !.chat = chat_id,
                                    !.mid = message_id])

\* The kv value of owner_id is kept as the number it spells.
_db_get_owner_id(s) == IF "owner_id" \in DOMAIN s.kv THEN s.kv["owner_id"] ELSE 0

_db_set_owner_id(s, owner_id) == [s EXCEPT !.kv = Upsert(@, "owner_id", owner_id)]

\* ------------------------------------------------------------ storage: cache
_db_put_message(s, chat_id, message_id, payload) ==
    Log([s EXCEPT !.messages = Upsert(@, <<chat_id, message_id>>,
                                      [payload |-> payload, created_at |-> s.now])],
        [Eff("put_message") EXCEPT !.chat = chat_id, !.mid = message_id])

HasMessage(s, chat_id, message_id) == <<chat_id, message_id>> \in DOMAIN s.messages

\* Only called where HasMessage holds (None otherwise).
_db_get_message(s, chat_id, message_id) == s.messages[<<chat_id, message_id>>].payload

_db_delete_message(s, chat_id, message_id) ==
    Log([s EXCEPT !.messages = Remove(@, <<chat_id, message_id>>)],
        [Eff("delete_message") EXCEPT !.chat = chat_id, !.mid = message_id])

_db_set_media(s, chat_id, message_id, kind, path) ==
    Log([s EXCEPT !.media = Upsert(@, <<chat_id, message_id>>,
                                   [kind |-> kind, path |-> path, created_at |-> s.now])],
        [Eff("set_media") EXCEPT !.chat = chat_id, !.mid = message_id, !.a = kind,
                                 !.t1 = path])

HasMedia(s, chat_id, message_id) == <<chat_id, message_id>> \in DOMAIN s.media

_db_get_media(s, chat_id, message_id) == s.media[<<chat_id, message_id>>]

\* The entry logged names the file of the row deleted (t1, 0 when there was
\* no row to delete).
_db_delete_media(s, chat_id, message_id) ==
    Log([s EXCEPT !.media = Remove(@, <<chat_id, message_id>>)],
        [Eff("delete_media") EXCEPT !.chat = chat_id, !.mid = message_id,
                                    !.t1 = IF <<chat_id, message_id>> \in DOMAIN s.media
                                           THEN s.media[<<chat_id, message_id>>].path
                                           ELSE 0])

_unlink_quiet(s, path) ==
    Log([s EXCEPT !.files = @ \ {path}], [Eff("unlink") EXCEPT !.t1 = path])

\* ORDER BY created_at DESC leaves the order of rows with the same
\* created_at open; s.tie is the order the query returns them in,
\* ascending or descending by key.
KeyLess(k1, k2) == k1[1] < k2[1] \/ (k1[1] = k2[1] /\ k1[2] < k2[2])

RowBefore(s, tab, k1, k2) ==
    \/ tab[k1].created_at > tab[k2].created_at
    \/ /\ tab[k1].created_at = tab[k2].created_at
       /\ IF s.tie = "asc" THEN KeyLess(k1, k2) ELSE KeyLess(k2, k1)

\* The keys K of table tab as the query returns them, without the first
\* `skip` ones.
RowsAfterOffset(s, tab, K, skip) ==
    LET pos(k) == Cardinality({j \in K : RowBefore(s, tab, j, k)})
        n == Cardinality(K)
    IN  [i \in 1..Max(0, n - skip) |-> CHOOSE k \in K : pos(k) = skip + i - 1]

RECURSIVE TrimChatRows(_, _, _)
TrimChatRows(s, chat_id, ids) ==
    IF ids = <<>> THEN s
    ELSE LET mid == Head(ids)
             s1 == IF HasMedia(s, chat_id, mid)
                   THEN _db_delete_media(
                            _unlink_quiet(s, _db_get_media(s, chat_id, mid).path),
                            chat_id, mid)
                   ELSE s
         IN  TrimChatRows(_db_delete_message(s1, chat_id, mid), chat_id, Tail(ids))

RECURSIVE TrimChatRows_KeepFile(_, _, _)
TrimChatRows_KeepFile(s, chat_id, ids) ==
    IF ids = <<>> THEN s
    ELSE LET mid == Head(ids)
             s1 == IF HasMedia(s, chat_id, mid) THEN _db_delete_media(s, chat_id, mid) ELSE s
         IN  TrimChatRows_KeepFile(_db_delete_message(s1, chat_id, mid), chat_id, Tail(ids))

_db_trim_chat_KeepFile(s, chat_id) ==
    IF MAX_MESSAGES_PER_CHAT <= 0 THEN s
    ELSE LET K == {k \in DOMAIN s.messages : k[1] = chat_id}
             rows == RowsAfterOffset(s, s.messages, K, MAX_MESSAGES_PER_CHAT)
             ids == [i \in DOMAIN rows |-> rows[i][2]]
         IN  TrimChatRows_KeepFile(s, chat_id, ids)

_db_trim_chat(s, chat_id) ==
    IF MAX_MESSAGES_PER_CHAT <= 0 THEN s
    ELSE LET K == {k \in DOMAIN s.messages : k[1] = chat_id}
             rows == RowsAfterOffset(s, s.messages, K, MAX_MESSAGES_PER_CHAT)
             ids == [i \in DOMAIN rows |-> rows[i][2]]
         IN  TrimChatRows(s, chat_id, ids)

RECURSIVE TrimMediaRows(_, _)
TrimMediaRows(s, rows) ==
    IF rows = <<>> THEN s
    ELSE LET r == Head(rows)
             path == s.media[r].path
         IN  TrimMediaRows(_db_delete_media(_unlink_quiet(s, path), r[1], r[2]), Tail(rows))

_db_trim_media(s) ==
    IF MAX_MEDIA_FILES <= 0 THEN s
    ELSE TrimMediaRows(s, RowsAfterOffset(s, s.media, DOMAIN s.media, MAX_MEDIA_FILES))

_enforce_chat_cache_limits(s, chat_id) == _db_trim_chat(s, chat_id)

_enforce_media_limit(s) == _db_trim_media(s)

_db_clear_cache(s) ==
    [s EXCEPT !.messages = EmptyTable, !.media = EmptyTable, !.forwarded = {}]

_clear_media_dir(s) == [s EXCEPT !.files = {}]

\* A lookup that never finds a tag.
_db_forwarded_get_Never(s, chat_id, message_id, tag) == FALSE

_db_forwarded_get(s, chat_id, message_id, tag) == <<chat_id, message_id, tag>> \in s.forwarded

_db_forwarded_set(s, chat_id, message_id, tag) ==
    Log([s EXCEPT !.forwarded = @ \cup {<<chat_id, message_id, tag>>}],
        [Eff("forwarded_set") EXCEPT !.to = chat_id, !.mid = message_id, !.a = tag])

\* ------------------------------------------------------------ payloads
\* A message payload: from (0 when absent), chat, chat_type, message_id, text
\* and caption ("" when absent), media (a kind of MediaKinds, "" when the
\* message carries none of them), cid, edit_date, and reply: <<>> or <<r>>
\* with r the reply_to_message, a payload whose own reply is <<>>.
_msg_text(m) ==
    IF m.text # "" THEN m.text
    ELSE IF m.caption # "" THEN m.caption
    ELSE IF m.media = "photo" THEN "[photo]"
    ELSE IF m.media = "video" THEN "[video]"
    ELSE IF m.media = "video_note" THEN "[video note]"
    ELSE IF m.media = "document" THEN "[document]"
    ELSE "[content]"

\* The file is fetched and stored under a name not used before (the name
\* holds the time of day to the microsecond and the file's unique id); the
\* marker _media_path is set on the payload in memory only, after the
\* payload was stored, so no later update sees it.
_cache_media(s, chat_id, message_id, m) ==
    IF m.media = "" THEN s
    ELSE LET path == s.nfile + 1
             s1 == Log([s EXCEPT !.nfile = path, !.files = @ \cup {path}],
                       [Eff("download") EXCEPT !.chat = chat_id, !.mid = message_id,
                                               !.a = m.media, !.t1 = path])
         IN  _db_set_media(s1, chat_id, message_id, m.media, path)

\* ------------------------------------------------------------ outbound
\* chat_id and message_id name the message a notice is about.
_notify_edit(s, owner_id, chat_id, message_id, old_text, new_text) ==
    IF _is_blocked_effective(s, owner_id) THEN s
    ELSE IF ~_db_is_bot_user(s, owner_id) THEN s
    ELSE Log(s, [Eff("send") EXCEPT !.to = owner_id, !.a = "edit", !.chat = chat_id,
                                    !.mid = message_id, !.b = old_text, !.c = new_text])

_notify_deleted(s, owner_id, chat_id, message_id, text_value) ==
    IF _is_blocked_effective(s, owner_id) THEN s
    ELSE IF ~_db_is_bot_user(s, owner_id) THEN s
    ELSE Log(s, [Eff("send") EXCEPT !.to = owner_id, !.a = "deleted", !.chat = chat_id,
                                    !.mid = message_id, !.b = text_value])

_notify_deleted_media(s, owner_id, chat_id, message_id, text_value, media_kind, media_path, cleanup) ==
    LET s1 == IF _is_blocked_effective(s, owner_id) THEN s
              ELSE IF ~_db_is_bot_user(s, owner_id) THEN s
              ELSE LET s2 == Log(s, [Eff("send") EXCEPT
                                        !.to = owner_id, !.a = "deleted_media",
                                        !.chat = chat_id, !.mid = message_id,
                                        !.b = IF media_kind = "video_note" THEN ""
                                              ELSE text_value,
                                        !.c = media_kind, !.t1 = media_path])
                   IN  IF media_kind = "video_note"
                       THEN Log(s2, [Eff("send") EXCEPT
                                        !.to = owner_id, !.a = "deleted", !.chat = chat_id,
                                        !.mid = message_id, !.b = text_value])
                       ELSE s2
    IN  IF cleanup THEN _unlink_quiet(s1, media_path) ELSE s1

_send_media_to_owner(s, owner_id, chat_id, message_id, media_kind, media_path, cleanup) ==
    LET s1 == IF _is_blocked_effective(s, owner_id) THEN s
              ELSE IF ~_db_is_bot_user(s, owner_id) THEN s
              ELSE Send(Log(s, [Eff("send") EXCEPT
                                   !.to = owner_id, !.a = "timer_media", !.chat = chat_id,
                                   !.mid = message_id, !.c = media_kind, !.t1 = media_path]),
                        owner_id, "timer_media_header")
    IN  IF cleanup THEN _unlink_quiet(s1, media_path) ELSE s1

_send_status(s, chat_id) == Send(s, chat_id, "status")
_send_privacy(s, chat_id) == Send(s, chat_id, "privacy")
_send_support_prompt(s, user_id) == Send(s, user_id, "support_prompt")
_send_broadcast_prompt(s, chat_id) == Send(s, chat_id, "broadcast_prompt")
_send_premium_header(s, chat_id) == Send(s, chat_id, "premium_header")
_send_subscription(s, chat_id) == Send(_send_premium_header(s, chat_id), chat_id, "subscription")

_send_start(s, chat_id, set_owner) ==
    LET s1 == IF set_owner
              THEN _db_set_owner_id([s EXCEPT !.OWNER_ID = chat_id], chat_id)
              ELSE s
        has_sub == _has_active_subscription(s1, chat_id)
        s2 == Send(_send_premium_header(s1, chat_id), chat_id, "welcome")
        s3 == IF chat_id # ADMIN_ID /\ _db_get_paid_mode(s2) /\ ~has_sub
              THEN Send(s2, chat_id, "access_not_active") ELSE s2
        s4 == IF has_sub THEN Send(s3, chat_id, "connect_howto") ELSE s3
    IN  IF _db_count_business_connections_for_owner(s4, chat_id) > 0
        THEN Send(s4, chat_id, "connected_summary")
        ELSE IF _has_active_subscription(s4, chat_id)
             THEN Send(s4, chat_id, "no_chats_yet") ELSE s4

\* ------------------------------------------------------------ payments
PlanNames == {"7d", "14d", "30d"}
PriceKey(plan) ==
    IF plan = "7d" THEN "stars_price_7d"
    ELSE IF plan = "14d" THEN "stars_price_14d" ELSE "stars_price_30d"

_db_kv_set(s, key, value) ==
    Log([s EXCEPT !.kv = Upsert(@, key, value)], [Eff("kv_set") EXCEPT !.a = key, !.t1 = value])

\* The kv value of a price is kept as the number it spells.
_stars_price(s, plan) ==
    IF plan \in PlanNames /\ PriceKey(plan) \in DOMAIN s.kv /\ s.kv[PriceKey(plan)] > 0
    THEN s.kv[PriceKey(plan)]
    ELSE IF plan \in PlanNames THEN DEFAULT_STARS_PRICES[plan] ELSE 0

\* Every plan taken for the shortest one.
_stars_plan_Week(s, plan) ==
    IF plan \notin DOMAIN STARS_DURATIONS THEN <<>>
    ELSE <<DEFAULT_STARS_PRICES[plan], Dur7d>>

\* <<>> stands for None, <<price, seconds>> for the plan.
_stars_plan(s, plan) ==
    IF plan \notin DOMAIN STARS_DURATIONS THEN <<>>
    ELSE IF _stars_price(s, plan) <= 0 THEN <<>>
    ELSE <<_stars_price(s, plan), STARS_DURATIONS[plan]>>

\* An invoice payload is the sequence of its parts between colons, so
\* "sub:7d:2" is <<"sub", "7d", "2">> and "" is <<"">>.
StartsWithSub(payload) == Len(payload) >= 2 /\ payload[1] = "sub"

\* q: [id, currency, invoice_payload], id and currency "" when absent.
HandlePreCheckoutQuery(s, q) ==
    LET bad_currency == q.currency # "" /\ q.currency # STARS_CURRENCY
        bad_payload == ~StartsWithSub(q.invoice_payload)
        ok == ~bad_currency /\ ~bad_payload
        err == IF bad_payload THEN "Invalid payload"
               ELSE IF bad_currency THEN "Unsupported currency" ELSE ""
    IN  Return(IF q.id # ""
               THEN Log(s, [Eff("answer_pre_checkout") EXCEPT
                               !.a = q.id, !.b = IF ok THEN "ok" ELSE "fail", !.c = err])
               ELSE s)

\* A payment that gives the shortest plan when its payload names none.
HandleSuccessfulPayment_Default(s, m0) ==
    LET payload == m0.successful_payment[1]
        plan == IF Len(payload) > 1 THEN payload[2] ELSE ""
        p == _stars_plan(s, plan)
    IN  Return(Send(_db_sub_extend(s, m0.chat, IF p # <<>> THEN p[2] ELSE Dur7d),
                    m0.chat, "access_active_until"))

\* m0: a message payload whose successful_payment is <<payload>>.
HandleSuccessfulPayment(s, m0) ==
    LET uid == m0.chat
        payload == m0.successful_payment[1]
        plan == IF Len(payload) > 1 THEN payload[2] ELSE ""
        p == _stars_plan(s, plan)
    IN  IF StartsWithSub(payload) /\ p # <<>>
        THEN LET s1 == _db_sub_extend(s, uid, p[2])
                 s2 == Send(_send_premium_header(s1, uid), uid, "access_active_until")
             IN  Return(IF _db_count_business_connections_for_owner(s2, uid) = 0
                        THEN Send(_send_premium_header(s2, uid), uid, "connect_steps")
                        ELSE s2)
        ELSE Return(s)

\* ------------------------------------------------------------ business_connection
\* bc: [cid, user_id], "" and 0 when absent.
HandleBusinessConnection(s, bc) ==
    LET cid == _extract_business_connection_id(bc)
        owner_uid == bc.user_id
    IN  IF cid # "" /\ owner_uid # 0
        THEN LET s1 == IF _has_active_subscription(s, owner_uid)
                       THEN _db_set_business_connection(s, cid, owner_uid)
                       ELSE s
                 mk == _db_mark_connection_notified(s1, cid)
             IN  Return(IF mk.r /\ _db_is_bot_user(mk.s, owner_uid)
                           /\ _has_active_subscription(mk.s, owner_uid)
                        THEN Log(mk.s, [Eff("send") EXCEPT !.to = owner_uid,
                                                           !.a = "connected", !.b = cid])
                        ELSE mk.s)
        ELSE Return(s)

\* ------------------------------------------------------------ callback_query
RECURSIVE _process_update(_, _)

\* The data of a callback: cmd is the text before the first colon, colon
\* says whether there is one, and after it stands a plan name (plan) or a
\* number (arg, with isnum saying whether the text spells one).
Data0(cmd) == [cmd |-> cmd, colon |-> FALSE, isnum |-> FALSE, arg |-> 0, plan |-> ""]
DataN(cmd, n) == [cmd |-> cmd, colon |-> TRUE, isnum |-> TRUE, arg |-> n, plan |-> ""]
DataP(cmd, plan) == [cmd |-> cmd, colon |-> TRUE, isnum |-> FALSE, arg |-> 0, plan |-> plan]

Exactly(data, cmd) == data.cmd = cmd /\ ~data.colon
Prefixed(data, cmd) == data.cmd = cmd /\ data.colon

\* A re-dispatch that turns the panel refresh into a grant of free access,
\* which re-dispatches in its turn.
Redispatch_Again(s, id, data, from_id) ==
    _process_update(Log(s, [Eff("redispatch") EXCEPT !.to = from_id, !.a = data.cmd, !.b = id]),
                    [callback_query |->
                        [id |-> id,
                         data |-> IF data.cmd = "admin" THEN DataN("admin_free_add", 2) ELSE data,
                         from |-> from_id]])

\* The synthetic callback of an internal re-dispatch; id is "0" or "" (absent).
\* The nested call of _process_update is entered in eff.
Redispatch(s, id, data, from_id) ==
    _process_update(Log(s, [Eff("redispatch") EXCEPT !.to = from_id, !.a = data.cmd, !.b = id]),
                    [callback_query |-> [id |-> id, data |-> data, from |-> from_id]])

\* An acknowledgement that takes the sentinel "0" for an id.
AnswerCallback_Any(s, cq_id) ==
    IF cq_id # ""
    THEN Log(s, [Eff("answer_callback") EXCEPT !.a = cq_id,
                                               !.c = IF s.ack_ok THEN "" ELSE "raised"])
    ELSE s

\* The acknowledgement of a callback; s.ack_ok says whether
\* answer_callback_query answers or raises (the exception is logged and
\* the handler goes on).
AnswerCallback(s, cq_id) ==
    IF cq_id # "" /\ cq_id # "0"
    THEN Log(s, [Eff("answer_callback") EXCEPT !.a = cq_id,
                                               !.c = IF s.ack_ok THEN "" ELSE "raised"])
    ELSE s

\* cq: [id, data, from], id "" and from 0 when absent.
HandleCallbackQuery(s, cq) ==
    LET from_id == cq.from
        data == cq.data
        is_admin == from_id = ADMIN_ID
    IN
    IF from_id # 0 /\ _is_blocked_effective(s, from_id)
    THEN Return(IF cq.id # ""
                THEN Log(s, [Eff("answer_callback") EXCEPT !.a = cq.id, !.b = "blocked_alert"])
                ELSE s)
    ELSE
    LET s1 == _db_touch_user(s, from_id)
        s2 == IF from_id # 0 THEN _db_mark_bot_user(s1, from_id) ELSE s1
        s3 == AnswerCallback(s2, cq.id)
    IN
    IF from_id = 0 THEN Return(s3)
    ELSE IF Exactly(data, "noop") THEN Return(s3)
    ELSE IF Exactly(data, "open_sub") THEN Return(_send_subscription(s3, from_id))
    ELSE IF Prefixed(data, "buy") THEN
        IF _stars_plan(s3, data.plan) = <<>> THEN Return(Send(s3, from_id, "unknown_plan"))
        ELSE IF _is_blocked_effective(s3, from_id) THEN Return(Send(s3, from_id, "blocked"))
        ELSE Return(Log(s3, [Eff("send") EXCEPT !.to = from_id, !.a = "invoice",
                                                !.b = data.plan,
                                                !.t1 = _stars_plan(s3, data.plan)[1]]))
    ELSE IF Exactly(data, "admin_prices") /\ is_admin THEN Return(Send(s3, from_id, "prices"))
    ELSE IF Exactly(data, "admin_prices_edit") /\ is_admin
    THEN Return(Send(_db_access_set_pending(s3, from_id, TRUE, "prices"), from_id,
                     "prices_prompt"))
    ELSE IF Exactly(data, "help") THEN Return(Send(s3, from_id, "help_unused"))
    ELSE IF Exactly(data, "status") THEN Return(_send_status(s3, from_id))
    ELSE IF Exactly(data, "privacy") THEN Return(_send_privacy(s3, from_id))
    ELSE IF Exactly(data, "support")
    THEN Return(_send_support_prompt(_db_support_set_pending(s3, from_id, TRUE), from_id))
    ELSE IF Exactly(data, "support_cancel")
    THEN Return(Send(_db_support_set_pending(s3, from_id, FALSE), from_id, "cancelled"))
    ELSE IF (Exactly(data, "admin") \/ Prefixed(data, "admin_page")) /\ is_admin
    THEN Return(Send(s3, from_id, "admin_panel"))
    ELSE IF Exactly(data, "admin_paid_toggle") /\ is_admin
    THEN LET cur == _db_get_paid_mode(s3)
             s4 == Send(_db_set_paid_mode(s3, ~cur), from_id, "paid_mode_now")
         IN  Return(Redispatch(s4, "", Data0("admin"), from_id))
    ELSE IF Exactly(data, "admin_free_list") /\ is_admin
    THEN Return(Send(s3, from_id, "free_list"))
    ELSE IF Exactly(data, "admin_cache_clear") /\ is_admin
    THEN Return(Send(s3, from_id, "cache_clear_confirm"))
    ELSE IF Exactly(data, "admin_cache_clear_no") /\ is_admin
    THEN Return(Send(s3, from_id, "cancelled"))
    ELSE IF Exactly(data, "admin_cache_clear_yes") /\ is_admin
    THEN Return(Send(_db_clear_cache(_clear_media_dir(s3)), from_id, "cache_cleared"))
    ELSE IF Exactly(data, "admin_blacklist") /\ is_admin
    THEN Return(Send(s3, from_id, "blacklist"))
    ELSE IF Prefixed(data, "admin_u") /\ is_admin
    THEN Return(IF data.isnum THEN Send(s3, from_id, "user_card") ELSE s3)
    ELSE IF Prefixed(data, "admin_free_add") /\ is_admin
    THEN IF ~data.isnum THEN Return(s3)
         ELSE Return(Redispatch(Send(_db_set_free_user(s3, data.arg, TRUE), from_id,
                                     "now_free"),
                                "", DataN("admin_u", data.arg), from_id))
    ELSE IF Prefixed(data, "admin_free_del") /\ is_admin
    THEN IF ~data.isnum THEN Return(s3)
         ELSE Return(Redispatch(Send(_db_set_free_user(s3, data.arg, FALSE), from_id,
                                     "not_free"),
                                "", DataN("admin_u", data.arg), from_id))
    ELSE IF Prefixed(data, "admin_block") /\ is_admin
    THEN Return(IF data.isnum
                THEN Send(_db_set_blocked(s3, data.arg, TRUE), from_id, "user_blocked")
                ELSE s3)
    ELSE IF Prefixed(data, "admin_unblock") /\ is_admin
    THEN Return(IF data.isnum
                THEN Send(_db_set_blocked(s3, data.arg, FALSE), from_id, "user_unblocked")
                ELSE s3)
    ELSE Return(s3)

\* ------------------------------------------------------------ message, business_message
\* The texts of the reply-keyboard buttons (the program's labels are
\* Russian with an emoji; these stand for them one to one).
TxtStatus == "[Status]"
TxtPrivacy == "[Privacy]"
TxtSupport == "[Support]"
TxtBindBusiness == "[Connect business]"
TxtAdmin == "[Admin]"
TxtBlacklist == "[Blacklist]"
TxtBroadcast == "[Broadcast]"
TxtCancel == "[Cancel]"
MenuTexts == {TxtStatus, TxtPrivacy, TxtSupport, TxtBindBusiness, TxtAdmin, TxtBlacklist,
              TxtBroadcast, TxtCancel}

\* What the price-edit flow makes of a text: the prices it names by plan
\* (vals), or bad = TRUE when a token names a plan with a price that int()
\* rejects.  Texts the table does not list name no plan.
PriceText == [txt \in {"7=15 14=25 30=45", "7=20", "7=0", "7=abc"} |->
    IF txt = "7=15 14=25 30=45"
    THEN [bad |-> FALSE, vals |-> [q \in PlanNames |-> DEFAULT_STARS_PRICES[q]]]
    ELSE IF txt = "7=20" THEN [bad |-> FALSE, vals |-> [q \in {"7d"} |-> 20]]
    ELSE IF txt = "7=0" THEN [bad |-> FALSE, vals |-> [q \in {"7d"} |-> 0]]
    ELSE [bad |-> TRUE, vals |-> EmptyTable]]
ParsePrices(txt) ==
    IF txt \in DOMAIN PriceText THEN PriceText[txt] ELSE [bad |-> FALSE, vals |-> EmptyTable]

RECURSIVE SetPrices(_, _, _)
SetPrices(s, vals, plans) ==
    IF plans = {} THEN s
    ELSE LET plan == CHOOSE q \in plans : TRUE
         IN  SetPrices(IF vals[plan] > 0 THEN _db_kv_set(s, PriceKey(plan), vals[plan]) ELSE s,
                       vals, plans \ {plan})

RECURSIVE CopyToAll(_, _, _, _)
CopyToAll(s, uids, chat_id, msg_id) ==
    IF uids = {} THEN s
    ELSE LET uid == CHOOSE u \in uids : \A v \in uids : u <= v
         IN  CopyToAll(IF uid = ADMIN_ID THEN s
                       ELSE Log(s, [Eff("send") EXCEPT !.to = uid, !.a = "copy",
                                                       !.chat = chat_id, !.mid = msg_id]),
                       uids \ {uid}, chat_id, msg_id)

\* Ownership recovery, explicit binding and chat tracking of a business_message.
BusinessOwnership(s, m) ==
    LET cid == _extract_business_connection_id(m)
        s_id == m.from
        c_id == m.chat
        s1 == IF cid # "" /\ s_id # 0 /\ s_id # c_id /\ _db_is_bot_user(s, s_id)
                 /\ _has_active_subscription(s, s_id)
                 /\ _db_get_owner_by_connection(s, cid) # s_id
              THEN _db_set_business_connection(s, cid, s_id)
              ELSE s
        s2 == IF cid # "" /\ s_id # 0 /\ s_id # c_id /\ _db_business_bind_is_pending(s1, s_id)
                 /\ _db_is_bot_user(s1, s_id) /\ _has_active_subscription(s1, s_id)
              THEN LET b1 == _db_business_bind_clear(
                                _db_upsert_business_connection_safe(s1, cid, s_id), s_id)
                   IN  IF _db_is_bot_user(b1, s_id) THEN Send(b1, s_id, "business_bound")
                       ELSE b1
              ELSE s1
        mapped_owner == IF cid # "" THEN _db_get_owner_by_connection(s2, cid) ELSE 0
    IN  IF mapped_owner # 0 /\ _has_active_subscription(s2, mapped_owner)
        THEN _db_owner_chat_add(s2, mapped_owner, c_id)
        ELSE s2

\* The reply-keyboard commands of a private message.
MenuCommand(s, m) ==
    LET chat_id == m.chat
        txt == m.text
    IN  IF txt = TxtStatus THEN Return(_send_status(s, chat_id))
        ELSE IF txt = TxtPrivacy THEN Return(_send_privacy(s, chat_id))
        ELSE IF txt = TxtSupport
        THEN Return(_send_support_prompt(_db_support_set_pending(s, chat_id, TRUE), chat_id))
        ELSE IF txt = TxtBindBusiness
        THEN IF ~_has_active_subscription(s, chat_id)
             THEN Return(_send_subscription(s, chat_id))
             ELSE IF _db_count_business_connections_for_owner(s, chat_id) > 0
             THEN Return(Send(s, chat_id, "already_connected"))
             ELSE Return(Send(_send_premium_header(
                                 _db_business_bind_set_pending(s, chat_id, TRUE), chat_id),
                              chat_id, "bind_howto"))
        ELSE IF txt = TxtBroadcast /\ chat_id = ADMIN_ID
        THEN Return(_send_broadcast_prompt(_db_broadcast_set_pending(s, chat_id, TRUE), chat_id))
        ELSE IF txt = TxtCancel
        THEN Return(Send(_db_broadcast_set_pending(
                            _db_support_set_pending(s, chat_id, FALSE), chat_id, FALSE),
                         chat_id, "cancelled"))
        ELSE IF txt = TxtAdmin /\ chat_id = ADMIN_ID
        THEN Return(Redispatch(s, "0", Data0("admin"), m.from))
        ELSE IF txt = TxtBlacklist /\ chat_id = ADMIN_ID
        THEN Return(Redispatch(s, "0", Data0("admin_blacklist"), m.from))
        ELSE s

\* The three pending flows of a private message, in the program's order.
PendingFlows(s, m) ==
    LET chat_id == m.chat
        pr == ParsePrices(m.text)
    IN  IF chat_id = ADMIN_ID /\ _db_access_get_pending(s, chat_id) = "prices"
           /\ m.text # "" /\ m.text # TxtCancel
        THEN IF pr.bad THEN Raise(s, "ValueError")
             ELSE IF DOMAIN pr.vals # {}
             THEN Return(Send(_db_access_set_pending(
                                 SetPrices(s, pr.vals, DOMAIN pr.vals), chat_id, FALSE,
                                 "prices"),
                              chat_id, "prices_updated"))
             ELSE Return(Send(s, chat_id, "prices_format"))
        ELSE IF chat_id = ADMIN_ID /\ _db_broadcast_is_pending(s, chat_id)
        THEN LET s1 == _db_broadcast_set_pending(s, chat_id, FALSE)
             IN  Return(Send(CopyToAll(s1, _db_list_bot_user_ids(s1), chat_id, m.message_id),
                             chat_id, "broadcast_done"))
        ELSE IF _db_support_is_pending(s, chat_id)
        THEN Return(Send(Log(_db_support_set_pending(s, chat_id, FALSE),
                             [Eff("send") EXCEPT !.to = SUPPORT_CHAT_ID, !.a = "support_ticket",
                                                 !.chat = chat_id, !.b = _msg_text(m)]),
                         chat_id, "support_thanks"))
        ELSE s

\* The reply_to_message of a cached message: cached too, and its media
\* pushed to the resolved recipient once.
CacheReply(s, m) ==
    IF m.reply = <<>> THEN s
    ELSE LET r == m.reply[1]
             chat_id == m.chat
             s1 == _cache_media(_db_put_message(s, chat_id, r.message_id, r), chat_id,
                                r.message_id, r)
             owner0 == _target_owner_for_business(s1, m)
             owner_id == IF owner0 # 0 /\ ~_has_active_subscription(s1, owner0) THEN 0
                         ELSE owner0
             target_id == IF owner_id # 0 THEN owner_id
                          ELSE IF _db_is_bot_user(s1, chat_id) THEN chat_id ELSE 0
         IN  IF target_id # 0 /\ ~_db_forwarded_get(s1, target_id, r.message_id, "ephemeral")
                /\ HasMedia(s1, chat_id, r.message_id)
             THEN _send_media_to_owner(
                      _db_forwarded_set(s1, target_id, r.message_id, "ephemeral"),
                      target_id, chat_id, r.message_id,
                      _db_get_media(s1, chat_id, r.message_id).kind,
                      _db_get_media(s1, chat_id, r.message_id).path, TRUE)
             ELSE s1

\* One round of the loop over ("message", "business_message"), stage by
\* stage; s.ret says whether an earlier stage returned from _process_update.
IsPrivate(key, m) == key = "message" /\ m.chat_type = "private"

GateStage_Open(s, key, m) ==
    IF key = "message" /\ _is_blocked_effective(s, m.chat) THEN Return(s) ELSE s

GateStage(s, key, m) ==
    IF key = "business_message"
       /\ _target_owner_for_business(s, m) # 0
       /\ ~_has_active_subscription(s, _target_owner_for_business(s, m))
    THEN Return(s)
    ELSE IF key = "message" /\ _is_blocked_effective(s, m.chat)
    THEN Return(s)
    ELSE s

TrackStage(s, key, m) ==
    IF s.ret THEN s
    ELSE IF key = "message" THEN _db_touch_user(s, m.from)
    ELSE BusinessOwnership(s, m)

\* A router without the reply-keyboard branch.
MenuStage_Skip(s, m) == s

MenuStage(s, m) == IF m.text \in MenuTexts THEN MenuCommand(s, m) ELSE s

FlowStage(s, m) == IF s.ret THEN s ELSE PendingFlows(s, m)

PrivateStage(s, key, m) ==
    IF s.ret \/ ~IsPrivate(key, m) THEN s
    ELSE FlowStage(MenuStage(_db_mark_bot_user(s, m.chat), m), m)

\* A binding that takes the first private chat, whoever writes.
OwnerStage_AnyChat(s, key, m) ==
    IF s.OWNER_ID = 0 /\ IsPrivate(key, m)
    THEN _db_set_owner_id([s EXCEPT !.OWNER_ID = m.chat], m.chat)
    ELSE s

OwnerStage(s, key, m) ==
    IF s.OWNER_ID = 0 /\ IsPrivate(key, m) /\ m.chat = ADMIN_ID
    THEN _db_set_owner_id([s EXCEPT !.OWNER_ID = m.chat], m.chat)
    ELSE s

StartStage(s, key, m) ==
    IF key = "message" /\ m.text = "/start"
    THEN _send_start(IF m.from # 0 THEN _db_log_event(s, m.from, "start", 0, 0) ELSE s,
                     m.chat, m.chat = ADMIN_ID)
    ELSE s

CacheStage(s, key, m) ==
    IF s.ret THEN s
    ELSE StartStage(
             _enforce_media_limit(
                 _enforce_chat_cache_limits(
                     CacheReply(
                         _cache_media(
                             _db_put_message(OwnerStage(s, key, m), m.chat, m.message_id, m),
                             m.chat, m.message_id, m),
                         m),
                     m.chat)),
             key, m)

HandleMessageKey(s, key, m) ==
    CacheStage(PrivateStage(TrackStage(GateStage(s, key, m), key, m), key, m), key, m)

\* ------------------------------------------------------------ edits and deletes
NotSavedEdit == "[old message not saved]"
NotSavedDelete == "[message not saved]"

\* The dedup table: a key notified less than the TTL before t is live.
RecentLive(s, k, t) ==
    k \in DOMAIN s._RECENT_NOTIFY /\ (t - s._RECENT_NOTIFY[k]) < RECENT_NOTIFY_TTL_SEC

RecentSet(s, k, t) == [s EXCEPT !._RECENT_NOTIFY = Upsert(@, k, t)]

HandleEditedBusinessMessage_NoDiff(s, m) ==
    LET owner_id == _target_owner_for_business(s, m)
        old_text == IF HasMessage(s, m.chat, m.message_id)
                    THEN _msg_text(_db_get_message(s, m.chat, m.message_id))
                    ELSE NotSavedEdit
    IN  IF owner_id = 0 THEN Return(_db_put_message(s, m.chat, m.message_id, m))
        ELSE IF ~_has_active_subscription(s, owner_id) THEN Return(s)
        ELSE _db_put_message(
                 _notify_edit(s, owner_id, m.chat, m.message_id, old_text, _msg_text(m)),
                 m.chat, m.message_id, m)

HandleEditedBusinessMessage(s, m) ==
    LET owner_id == _target_owner_for_business(s, m)
        editor_id == m.from
        chat_id_i == m.chat
        msg_id_i == m.message_id
        old_text == IF HasMessage(s, chat_id_i, msg_id_i)
                    THEN _msg_text(_db_get_message(s, chat_id_i, msg_id_i))
                    ELSE NotSavedEdit
        new_text == _msg_text(m)
        k == <<"edit", owner_id, msg_id_i, m.edit_date>>
        Notify(x) ==
            IF editor_id # 0 /\ owner_id = editor_id THEN x
            ELSE IF RecentLive(x, k, x.now) THEN x
            ELSE _notify_edit(RecentSet(x, k, x.now), owner_id, chat_id_i, msg_id_i, old_text,
                              new_text)
    IN  IF owner_id = 0 THEN Return(_db_put_message(s, chat_id_i, msg_id_i, m))
        ELSE IF ~_has_active_subscription(s, owner_id) THEN Return(s)
        ELSE IF old_text # new_text
        THEN IF editor_id # 0 /\ editor_id # ADMIN_ID /\ _db_is_blocked(s, editor_id)
             THEN Return(s)
             ELSE _db_put_message(
                      Notify(IF editor_id # 0
                             THEN _db_log_event(s, editor_id, "edited_message", chat_id_i,
                                                msg_id_i)
                             ELSE s),
                      chat_id_i, msg_id_i, m)
        ELSE _db_put_message(s, chat_id_i, msg_id_i, m)

\* The call of _notify_deleted_media in the delete handler passes no
\* cleanup, an argument the function requires: Python raises TypeError at
\* the call, before the function body runs, and the handler's except
\* clause logs it.
CallNotifyDeletedMedia(s, owner_id, chat_id, message_id, text_value, media_kind, media_path, passes_cleanup, cleanup) ==
    IF ~passes_cleanup
    THEN Log(s, [Eff("caught") EXCEPT !.a = "TypeError", !.to = owner_id,
                                      !.chat = chat_id, !.mid = message_id])
    ELSE _notify_deleted_media(s, owner_id, chat_id, message_id, text_value, media_kind,
                               media_path, cleanup)

\* One round of the loop over message_ids; t is the time taken before the loop.
DeleteOne(s, owner_id, chat_id_i, msg_id_i, t) ==
    LET has == HasMessage(s, chat_id_i, msg_id_i)
        prev == IF has THEN _db_get_message(s, chat_id_i, msg_id_i) ELSE [from |-> 0]
        old_text == IF has THEN _msg_text(prev) ELSE NotSavedDelete
        sender_id == prev.from
        has_media == has /\ HasMedia(s, chat_id_i, msg_id_i)
        k == <<"del", owner_id, msg_id_i>>
    IN  IF sender_id # 0 /\ sender_id # ADMIN_ID /\ _db_is_blocked(s, sender_id) THEN s
        ELSE LET s1 == IF sender_id # 0
                       THEN _db_log_event(s, sender_id, "deleted_message", chat_id_i, msg_id_i)
                       ELSE s
                 s2 == _db_delete_media(_db_delete_message(s1, chat_id_i, msg_id_i),
                                        chat_id_i, msg_id_i)
             IN  IF sender_id # 0 /\ owner_id = sender_id THEN s2
                 ELSE IF RecentLive(s2, k, t) THEN s2
                 ELSE LET s3 == RecentSet(s2, k, t)
                      IN  IF has_media
                          THEN CallNotifyDeletedMedia(
                                   s3, owner_id, chat_id_i, msg_id_i, old_text,
                                   _db_get_media(s, chat_id_i, msg_id_i).kind,
                                   _db_get_media(s, chat_id_i, msg_id_i).path, FALSE, FALSE)
                          ELSE _notify_deleted(s3, owner_id, chat_id_i, msg_id_i, old_text)

RECURSIVE DeleteLoop(_, _, _, _, _)
DeleteLoop(s, owner_id, chat_id_i, ids, t) ==
    IF ids = <<>> THEN s
    ELSE DeleteLoop(DeleteOne(s, owner_id, chat_id_i, Head(ids), t), owner_id, chat_id_i,
                    Tail(ids), t)

\* d: [cid, chat, message_ids].
HandleDeletedBusinessMessages(s, d) ==
    LET owner_id == _target_owner_for_business(s, d)
    IN  IF d.message_ids = <<>> THEN Return(s)
        ELSE IF owner_id = 0 THEN Return(s)
        ELSE IF ~_has_active_subscription(s, owner_id) THEN Return(s)
        ELSE DeleteLoop(s, owner_id, d.chat, d.message_ids, s.now)

HandleEditedMessage(s, m) ==
    LET chat_id_i == m.chat
        msg_id_i == m.message_id
        old_text == IF HasMessage(s, chat_id_i, msg_id_i)
                    THEN _msg_text(_db_get_message(s, chat_id_i, msg_id_i))
                    ELSE NotSavedEdit
        new_text == _msg_text(m)
    IN  IF m.chat_type # "private" THEN Return(_db_put_message(s, chat_id_i, msg_id_i, m))
        ELSE _db_put_message(
                 IF old_text # new_text /\ _db_is_bot_user(s, chat_id_i)
                 THEN _notify_edit(s, chat_id_i, chat_id_i, msg_id_i, old_text, new_text)
                 ELSE s,
                 chat_id_i, msg_id_i, m)

\* ------------------------------------------------------------ _process_update
\* upd: a record with one field per key the update carries.
Has(upd, key) == key \in DOMAIN upd

\* The handlers after the early branches run one after the other until one
\* of them returns.
MessageStage(s, upd, key) ==
    IF s.ret \/ ~Has(upd, key) THEN s ELSE HandleMessageKey(s, key, upd[key])

EditedBusinessStage(s, upd) ==
    IF s.ret \/ ~Has(upd, "edited_business_message") THEN s
    ELSE HandleEditedBusinessMessage(s, upd.edited_business_message)

DeletedStage(s, upd) ==
    IF s.ret \/ ~Has(upd, "deleted_business_messages") THEN s
    ELSE HandleDeletedBusinessMessages(s, upd.deleted_business_messages)

EditedMessageStage(s, upd) ==
    IF s.ret \/ ~Has(upd, "edited_message") THEN s
    ELSE HandleEditedMessage(s, upd.edited_message)

_process_update(s, upd) ==
    IF Has(upd, "pre_checkout_query") THEN HandlePreCheckoutQuery(s, upd.pre_checkout_query)
    ELSE IF Has(upd, "message") /\ upd.message.successful_payment # <<>>
    THEN HandleSuccessfulPayment(s, upd.message)
    ELSE IF Has(upd, "business_connection")
    THEN HandleBusinessConnection(s, upd.business_connection)
    ELSE IF Has(upd, "callback_query") THEN HandleCallbackQuery(s, upd.callback_query)
    ELSE EditedMessageStage(
             DeletedStage(
                 EditedBusinessStage(
                     MessageStage(MessageStage(s, upd, "message"), upd, "business_message"),
                     upd),
                 upd),
             upd)

\* ------------------------------------------------------------ inputs
\* A message payload.
Msg(from, chat, chat_type, message_id, text, med, cid) ==
    [from |-> from, chat |-> chat, chat_type |-> chat_type, message_id |-> message_id,
     text |-> text, caption |-> "", media |-> med, cid |-> cid, edit_date |-> 0,
     reply |-> <<>>, successful_payment |-> <<>>]

Edited(m, edit_date) == [m EXCEPT !.edit_date = edit_date]
ReplyTo(m, r) == [m EXCEPT !.reply = <<r>>]
Paid(m, payload) == [m EXCEPT !.successful_payment = <<payload>>]

\* ------------------------------------------------------------ initial states
T0 == 700000

\* main(): the tables are what earlier runs left in the database file, the
\* module globals are fresh, and OWNER_ID is read back from kv.
InitWith(kv0, free0, subs0, users0, conns0) ==
    /\ now = T0
    /\ kv = kv0
    /\ free_users = free0
    /\ subscriptions = subs0
    /\ users = users0
    /\ business_connections = conns0
    /\ business_bind_state = {}
    /\ support_state = {}
    /\ broadcast_state = {}
    /\ access_state = EmptyTable
    /\ owner_chats = {}
    /\ messages = EmptyTable
    /\ media = EmptyTable
    /\ forwarded = {}
    /\ files = {}
    /\ nfile = 0
    /\ OWNER_ID = IF "owner_id" \in DOMAIN kv0 THEN kv0["owner_id"] ELSE 0
    /\ _RECENT_NOTIFY = EmptyTable
    /\ eff = <<>>
    /\ update = [start |-> TRUE]
    /\ nsteps = 0
    /\ offset = 0
    /\ updates = <<>>
    /\ inbox = <<>>
    /\ handled = <<>>

\* Rows of users who have written to the bot in private (bot_user = 1).
BotUsers(B) == [u \in B |-> [blocked |-> FALSE, bot_user |-> TRUE]]
Blocked(us, u) == [us EXCEPT ![u].blocked = TRUE]
PaidModeOn == [k \in {"paid_mode"} |-> "1"]
ConnOf(cid, owner) == [c \in {cid} |-> [owner_user_id |-> owner, notified |-> TRUE]]
PaidUntil(u, t) == [x \in {u} |-> t]

\* ------------------------------------------------------------ steps
\* main() awaits _process_update(update) for one update at a time; what
\* leaves it in an exception is logged and the loop goes on.
Handle(upd) ==
    \E tie \in {"asc", "desc"} :
        LET s == _process_update([St EXCEPT !.tie = tie], upd)
        IN  /\ s.nfile <= MaxFiles
            /\ Becomes(s)
            /\ update' = upd
            /\ nsteps' = nsteps + 1
            /\ UNCHANGED <<offset, updates, inbox, handled>>

\* Time passes between two updates.
Pass(d) ==
    /\ now' = now + d
    /\ eff' = <<>>
    /\ update' = [tick |-> d]
    /\ nsteps' = nsteps + 1
    /\ UNCHANGED <<kv, free_users, subscriptions, users, business_connections,
                   business_bind_state, support_state, broadcast_state, access_state,
                   owner_chats, messages, media, forwarded, files, nfile, OWNER_ID,
                   _RECENT_NOTIFY, offset, updates, inbox, handled>>

\* ------------------------------------------------------------ Spec: access and ownership
\* Users 2 and 3 are ordinary users who have started the bot; connection
\* c1 may belong to user 2, whose subscription is absent, expired, ending
\* this very second or running.
Init ==
    \E kv0 \in {EmptyTable, PaidModeOn},
       free0 \in {{}, {2}},
       subs0 \in {EmptyTable, PaidUntil(2, T0 - 100), PaidUntil(2, T0), PaidUntil(2, T0 + 100)},
       conns0 \in {EmptyTable, ConnOf("c1", 2)} :
        InitWith(kv0, free0, subs0, BotUsers(UserIds), conns0)

OnSuccessfulPayment ==
    /\ nsteps < MaxSteps
    /\ \E uid \in {2, 3}, plan \in {"7d", "30d", "1y"} :
          /\ uid = 3 => plan = "7d"
          /\ Handle([message |-> Paid(Msg(uid, uid, "private", 1, "", "", ""),
                                      <<"sub", plan, "uid">>)])

OnBusinessConnection ==
    /\ nsteps < MaxSteps
    /\ \E uid \in {2, 3} : Handle([business_connection |-> [cid |-> "c1", user_id |-> uid]])

OnBusinessMessage ==
    /\ nsteps < MaxSteps
    /\ \E from \in {2, 3}, chat \in {2, 3} :
          /\ <<from, chat>> # <<2, 2>>
          /\ Handle([business_message |-> Msg(from, chat, "private", 1, "a", "photo", "c1")])

OnEditedBusinessMessage ==
    /\ nsteps < MaxSteps
    /\ \E text \in {"a", "b"} :
          Handle([edited_business_message |->
                     Edited(Msg(3, 3, "private", 1, text, "", "c1"), 5)])

OnDeletedBusinessMessages ==
    /\ nsteps < MaxSteps
    /\ Handle([deleted_business_messages |->
                  [cid |-> "c1", chat |-> 3, message_ids |-> <<1>>]])

OnMessage ==
    /\ nsteps < MaxSteps
    /\ \E u \in {2, 3} : Handle([message |-> Msg(u, u, "private", 2, "/start", "", "")])

OnCallbackQuery ==
    /\ nsteps < MaxSteps
    /\ Handle([callback_query |->
                  [id |-> "q", data |-> Data0("admin_paid_toggle"), from |-> ADMIN_ID]])

Tick ==
    /\ nsteps < MaxSteps
    /\ Pass(100)

Next ==
    \/ OnSuccessfulPayment
    \/ OnBusinessConnection
    \/ OnBusinessMessage
    \/ OnEditedBusinessMessage
    \/ OnDeletedBusinessMessages
    \/ OnMessage
    \/ OnCallbackQuery
    \/ Tick

Spec == Init /\ [][Next]_vars

\* ------------------------------------------------------------ SpecRemap
\* _db_upsert_business_connection_safe applied to every table of users and
\* connections: any of the users may have started the bot, and c1 may
\* belong to any of them or to nobody.
InitRemap ==
    \E B \in SUBSET UserIds, owner \in UserIds \cup {0} :
        InitWith(EmptyTable, {}, EmptyTable, BotUsers(B),
                 IF owner = 0 THEN EmptyTable ELSE ConnOf("c1", owner))

CallUpsertSafe ==
    /\ nsteps < MaxSteps
    /\ \E new_owner \in UserIds :
          /\ Becomes(_db_upsert_business_connection_safe(St, "c1", new_owner))
          /\ update' = [call |-> "_db_upsert_business_connection_safe",
                        connection_id |-> "c1", owner_user_id |-> new_owner]
          /\ nsteps' = nsteps + 1
          /\ UNCHANGED <<offset, updates, inbox, handled>>

OnStart ==
    /\ nsteps < MaxSteps
    /\ \E u \in UserIds : Handle([message |-> Msg(u, u, "private", 1, "/start", "", "")])

NextRemap == CallUpsertSafe \/ OnStart

SpecRemap == InitRemap /\ [][NextRemap]_vars

\* ------------------------------------------------------------ SpecNotify
\* Edits and deletes in chat 3 of connection c1, which belongs to user 2;
\* paid mode is off or on with user 2 paid up, and everybody has started
\* the bot.  Updates may follow each other at once, 50 or 70 seconds apart.
InitNotify ==
    \E kv0 \in {EmptyTable, PaidModeOn} :
        InitWith(kv0, {}, PaidUntil(2, T0 + Dur7d), BotUsers(UserIds), ConnOf("c1", 2))

OnBusinessMessageN ==
    /\ nsteps < MaxStepsNotify
    /\ \E from \in {2, 3}, med \in {"", "photo"} :
          Handle([business_message |-> Msg(from, 3, "private", 1, "a", med, "c1")])

OnEditedBusinessMessageN ==
    /\ nsteps < MaxStepsNotify
    /\ \E from \in {2, 3}, text \in {"a", "b"} :
          Handle([edited_business_message |->
                     Edited(Msg(from, 3, "private", 1, text, "", "c1"), 5)])

OnDeletedBusinessMessagesN ==
    /\ nsteps < MaxStepsNotify
    /\ Handle([deleted_business_messages |->
                  [cid |-> "c1", chat |-> 3, message_ids |-> <<1>>]])

TickN ==
    /\ nsteps < MaxStepsNotify
    /\ \E d \in {50, 70} : Pass(d)

NextNotify ==
    \/ OnBusinessMessageN
    \/ OnEditedBusinessMessageN
    \/ OnDeletedBusinessMessagesN
    \/ TickN

SpecNotify == InitNotify /\ [][NextNotify]_vars

\* ------------------------------------------------------------ SpecCache
\* Messages with and without media, some of them replies to a photo, in the
\* private chat of user 2 and in chat 3 of connection c1; updates arrive
\* within one second or a second apart.
InitCache ==
    InitWith(EmptyTable, {}, EmptyTable, BotUsers({ADMIN_ID, 2}), ConnOf("c1", 2))

ReplyChoices(mid) ==
    {<<>>} \cup {<<Msg(3, 3, "private", r, "", "photo", "")>> : r \in {MaxMsgId} \ {mid}}

OnMessageC ==
    /\ nsteps < MaxStepsCache
    /\ \E mid \in MsgIds, med \in {"", "photo"} :
          Handle([message |-> Msg(2, 2, "private", mid, "a", med, "")])

OnBusinessMessageC ==
    /\ nsteps < MaxStepsCache
    /\ \E mid \in MsgIds, med \in {"", "video"} :
          \E r \in ReplyChoices(mid) :
              Handle([business_message |->
                         [Msg(3, 3, "private", mid, "a", med, "c1") EXCEPT !.reply = r]])

TickC ==
    /\ nsteps < MaxStepsCache
    /\ Pass(1)

NextCache == OnMessageC \/ OnBusinessMessageC \/ TickC

SpecCache == InitCache /\ [][NextCache]_vars

\* ------------------------------------------------------------ SpecDispatch
\* Updates that carry one or several of the keys the later branches of
\* _process_update look for, about message 1 in the private chat of user 2
\* and message 2 in chat 3 of connection c1, which belongs to user 2.
InitDispatch ==
    InitWith(EmptyTable, {}, EmptyTable, BotUsers(UserIds), ConnOf("c1", 2))

LateKeys == {"message", "business_message", "edited_business_message",
             "deleted_business_messages", "edited_message"}

PayloadOf(key) ==
    CASE key = "message" -> Msg(2, 2, "private", 1, "a", "", "")
      [] key = "business_message" -> Msg(3, 3, "private", 2, "a", "", "c1")
      [] key = "edited_business_message" -> Edited(Msg(3, 3, "private", 2, "b", "", "c1"), 5)
      [] key = "deleted_business_messages" -> [cid |-> "c1", chat |-> 3, message_ids |-> <<2>>]
      [] key = "edited_message" -> Edited(Msg(2, 2, "private", 1, "b", "", ""), 5)

OnOneKey ==
    /\ nsteps < MaxStepsDispatch
    /\ \E key \in LateKeys : Handle([k \in {key} |-> PayloadOf(k)])

OnManyKeys ==
    /\ nsteps < MaxStepsDispatch
    /\ \E K \in SUBSET LateKeys :
          /\ Cardinality(K) > 1
          /\ Handle([k \in K |-> PayloadOf(k)])

NextDispatch == OnOneKey \/ OnManyKeys

SpecDispatch == InitDispatch /\ [][NextDispatch]_vars

\* ------------------------------------------------------------ SpecPoll
\* The polling loop of main(): updates arrive at Telegram, getUpdates
\* fetches those not yet confirmed, and the batch is processed one update
\* after the other.  The administrator asks to edit the prices and sends a
\* price that int() rejects, which raises out of _process_update; user 2
\* sends /start.
InitPoll ==
    InitWith(EmptyTable, {}, EmptyTable, BotUsers({ADMIN_ID, 2}), EmptyTable)

PollBodies ==
    {[callback_query |-> [id |-> "q", data |-> Data0("admin_prices_edit"), from |-> ADMIN_ID]],
     [message |-> Msg(ADMIN_ID, ADMIN_ID, "private", 1, "7=abc", "", "")],
     [message |-> Msg(2, 2, "private", 2, "/start", "", "")]}

\* Telegram numbers the updates as they arrive.
Arrive ==
    /\ nsteps < MaxUpdates
    /\ \E body \in PollBodies :
          inbox' = Append(inbox, [update_id |-> nsteps + 1, body |-> body])
    /\ nsteps' = nsteps + 1
    /\ UNCHANGED <<now, kv, free_users, subscriptions, users, business_connections,
                   business_bind_state, support_state, broadcast_state, access_state,
                   owner_chats, messages, media, forwarded, files, nfile, OWNER_ID,
                   _RECENT_NOTIFY, eff, update, offset, updates, handled>>

\* What getUpdates(offset) leaves at Telegram: an update is confirmed, and
\* forgotten, once getUpdates is called with an offset above its id.
Unconfirmed(box, off) == SelectSeq(box, LAMBDA u : off = 0 \/ u.update_id >= off)

\* One round of the while loop up to the for loop: the batch is a prefix
\* of the unconfirmed updates, all of them or fewer.
GetUpdates ==
    /\ updates = <<>>
    /\ inbox' = Unconfirmed(inbox, offset)
    /\ \E n \in 0..Len(inbox') : updates' = SubSeq(inbox', 1, n)
    /\ UNCHANGED <<now, kv, free_users, subscriptions, users, business_connections,
                   business_bind_state, support_state, broadcast_state, access_state,
                   owner_chats, messages, media, forwarded, files, nfile, OWNER_ID,
                   _RECENT_NOTIFY, eff, update, nsteps, offset, handled>>

Raised(s) == \E i \in DOMAIN s.eff : s.eff[i].op = "raise"

\* offset after the update: assigned after the try statement, whether
\* _process_update raised or not.
OffsetAfter_OnlyOnSuccess(off, upd, raised) == IF raised THEN off ELSE upd.update_id + 1

OffsetAfter(off, upd, raised) == upd.update_id + 1

\* One round of the for loop.
ProcessNext ==
    /\ updates # <<>>
    /\ Len(handled) < MaxHandled
    /\ \E tie \in {"asc", "desc"} :
          LET upd == Head(updates)
              s == _process_update([St EXCEPT !.tie = tie], upd.body)
          IN  /\ s.nfile <= MaxFiles
              /\ Becomes(s)
              /\ update' = upd.body
              /\ handled' = Append(handled, [update_id |-> upd.update_id, raised |-> Raised(s)])
              /\ offset' = OffsetAfter(offset, upd, Raised(s))
              /\ updates' = Tail(updates)
    /\ UNCHANGED <<nsteps, inbox>>

NextPoll == Arrive \/ GetUpdates \/ ProcessNext

SpecPoll == InitPoll /\ [][NextPoll]_vars

\* ------------------------------------------------------------ SpecConnect
\* Connection c1 is not known yet.  Users 2 and 3 connect it, start the
\* bot, ask to bind their business account and write in business chats;
\* user 2 is paid up, and paid mode is on or off.
InitConnect ==
    \E kv0 \in {EmptyTable, PaidModeOn}, B \in {{ADMIN_ID}, {ADMIN_ID, 2}, UserIds} :
        InitWith(kv0, {}, PaidUntil(2, T0 + Dur7d), BotUsers(B), EmptyTable)

OnBusinessConnectionK ==
    /\ nsteps < MaxStepsConnect
    /\ \E uid \in {2, 3} : Handle([business_connection |-> [cid |-> "c1", user_id |-> uid]])

OnMessageK ==
    /\ nsteps < MaxStepsConnect
    /\ \E u \in {2, 3}, text \in {"/start", TxtBindBusiness} :
          Handle([message |-> Msg(u, u, "private", 1, text, "", "")])

OnBusinessMessageK ==
    /\ nsteps < MaxStepsConnect
    /\ \E from \in {2, 3}, chat \in {2, 3} :
          /\ <<from, chat>> # <<2, 2>>
          /\ Handle([business_message |-> Msg(from, chat, "private", 2, "a", "", "c1")])

NextConnect == OnBusinessConnectionK \/ OnMessageK \/ OnBusinessMessageK

SpecConnect == InitConnect /\ [][NextConnect]_vars

\* ------------------------------------------------------------ SpecPay
\* Pre-checkout queries and successful payments of user 2, whose
\* subscription is absent, expired or running, with well-formed and
\* malformed payloads; an update may follow 100 seconds after another.
InitPay ==
    \E kv0 \in {EmptyTable, PaidModeOn},
       subs0 \in {EmptyTable, PaidUntil(2, T0 - 100), PaidUntil(2, T0 + 100)} :
        InitWith(kv0, {}, subs0, BotUsers(UserIds), EmptyTable)

\* "sub:7d:2", "sub:14d:2", "sub:30d:2", "sub:1y:2", "sub:", "gift:7d", "sub", "".
Payloads == {<<"sub", "7d", "2">>, <<"sub", "14d", "2">>, <<"sub", "30d", "2">>,
             <<"sub", "1y", "2">>, <<"sub", "">>, <<"gift", "7d">>, <<"sub">>, <<"">>}

OnPreCheckoutQuery ==
    /\ nsteps < MaxStepsPay
    /\ \E id \in {"", "q"}, currency \in {"", "XTR", "USD"},
          payload \in {<<"sub", "7d", "2">>, <<"gift", "7d">>, <<"sub">>} :
          Handle([pre_checkout_query |->
                     [id |-> id, currency |-> currency, invoice_payload |-> payload]])

OnSuccessfulPaymentP ==
    /\ nsteps < MaxStepsPay
    /\ \E payload \in Payloads :
          Handle([message |-> Paid(Msg(2, 2, "private", 1, "", "", ""), payload)])

TickP ==
    /\ nsteps < MaxStepsPay
    /\ Pass(100)

NextPay == OnPreCheckoutQuery \/ OnSuccessfulPaymentP \/ TickP

SpecPay == InitPay /\ [][NextPay]_vars

\* ------------------------------------------------------------ SpecMutual
\* Two owners who talk to each other: connection c1 belongs to user 2 and
\* c2 to user 3, both have started the bot, paid mode is off.  Messages of
\* their chat arrive over either connection, and message 1 of chat 3 is
\* edited and deleted over c1.
MutualConns ==
    [c \in ConnIds |-> [owner_user_id |-> IF c = "c1" THEN 2 ELSE 3, notified |-> TRUE]]

InitMutual == InitWith(EmptyTable, {}, EmptyTable, BotUsers(UserIds), MutualConns)

OnBusinessMessageM ==
    /\ nsteps < MaxStepsMutual
    /\ \E cid \in ConnIds, from \in {2, 3} :
          Handle([business_message |->
                     Msg(from, IF cid = "c1" THEN 3 ELSE 2, "private", 1, "a", "", cid)])

OnEditedBusinessMessageM ==
    /\ nsteps < MaxStepsMutual
    /\ \E from \in {2, 3} :
          Handle([edited_business_message |->
                     Edited(Msg(from, 3, "private", 1, "b", "", "c1"), 5)])

OnDeletedBusinessMessagesM ==
    /\ nsteps < MaxStepsMutual
    /\ Handle([deleted_business_messages |->
                  [cid |-> "c1", chat |-> 3, message_ids |-> <<1>>]])

NextMutual == OnBusinessMessageM \/ OnEditedBusinessMessageM \/ OnDeletedBusinessMessagesM

SpecMutual == InitMutual /\ [][NextMutual]_vars

\* ------------------------------------------------------------ SpecBlocked
\* Chat 3 of connection c1, which belongs to user 2; the administrator has
\* blocked user 3.  Messages of users 2 and 3, with and without a photo,
\* are cached, edited and deleted.
InitBlocked ==
    InitWith(EmptyTable, {}, EmptyTable, Blocked(BotUsers(UserIds), 3), ConnOf("c1", 2))

OnBusinessMessageB ==
    /\ nsteps < MaxStepsBlocked
    /\ \E from \in {2, 3}, med \in {"", "photo"} :
          Handle([business_message |-> Msg(from, 3, "private", 1, "a", med, "c1")])

OnEditedBusinessMessageB ==
    /\ nsteps < MaxStepsBlocked
    /\ \E from \in {2, 3}, text \in {"a", "b"} :
          Handle([edited_business_message |->
                     Edited(Msg(from, 3, "private", 1, text, "", "c1"), 5)])

OnDeletedBusinessMessagesB ==
    /\ nsteps < MaxStepsBlocked
    /\ Handle([deleted_business_messages |->
                  [cid |-> "c1", chat |-> 3, message_ids |-> <<1>>]])

NextBlocked == OnBusinessMessageB \/ OnEditedBusinessMessageB \/ OnDeletedBusinessMessagesB

SpecBlocked == InitBlocked /\ [][NextBlocked]_vars

\* ------------------------------------------------------------ SpecDeletes
\* Chats 3 and 4 of connection c1, which belongs to user 2; everybody has
\* access, users 1 to 3 have started the bot.  Messages 1 and 2 of either
\* chat, written by the owner or by the other side, with or without a
\* photo, are cached, edited, and deleted one or two at a time; an update
\* may follow another at once or after the dedup window has passed.
InitDeletes ==
    InitWith(EmptyTable, {}, EmptyTable, BotUsers(UserIds), ConnOf("c1", 2))

OnBusinessMessageD ==
    /\ nsteps < MaxStepsDeletes
    /\ \E chat \in {3, 4}, mid \in {1, 2}, own \in BOOLEAN, med \in {"", "photo"} :
          /\ med = "photo" => mid = 1 /\ chat = 3
          /\ Handle([business_message |->
                        Msg(IF own THEN 2 ELSE chat, chat, "private", mid, "a", med, "c1")])

OnEditedBusinessMessageD ==
    /\ nsteps < MaxStepsDeletes
    /\ \E chat \in {3, 4}, edit_date \in {5, 6} :
          Handle([edited_business_message |->
                     Edited(Msg(chat, chat, "private", 1, "b", "", "c1"), edit_date)])

OnDeletedBusinessMessagesD ==
    /\ nsteps < MaxStepsDeletes
    /\ \E chat \in {3, 4}, ids \in {<<1>>, <<2>>, <<1, 2>>, <<2, 1>>} :
          /\ chat = 4 => ids = <<1>>
          /\ Handle([deleted_business_messages |->
                        [cid |-> "c1", chat |-> chat, message_ids |-> ids]])

TickD ==
    /\ nsteps < MaxStepsDeletes
    /\ Pass(RECENT_NOTIFY_TTL_SEC + 10)

NextDeletes ==
    \/ OnBusinessMessageD
    \/ OnEditedBusinessMessageD
    \/ OnDeletedBusinessMessagesD
    \/ TickD

SpecDeletes == InitDeletes /\ [][NextDeletes]_vars

\* ------------------------------------------------------------ SpecCallback
\* Callback queries of every kind the router knows, and one it does not,
\* pressed by the administrator, by user 2 and by user 3, whom the
\* administrator has blocked, or carrying no sender; with a real id, with
\* the sentinel "0" or with none; the acknowledgement may fail.  The
\* administrator's own row may carry the blocked mark, and the
\* administrator opens the panel and the blacklist from the reply keyboard.
InitCallback ==
    \E admin_marked \in BOOLEAN, started3 \in BOOLEAN :
        InitWith(EmptyTable, {}, EmptyTable,
                 [u \in UserIds |->
                     [blocked |-> IF u = ADMIN_ID THEN admin_marked ELSE u = 3,
                      bot_user |-> IF u = 3 THEN started3 ELSE TRUE]],
                 EmptyTable)

CallbackData ==
    {Data0(c) : c \in {"noop", "open_sub", "admin_prices", "admin_prices_edit", "help",
                       "status", "privacy", "support", "support_cancel", "admin",
                       "admin_paid_toggle", "admin_free_list", "admin_cache_clear",
                       "admin_cache_clear_no", "admin_cache_clear_yes", "admin_blacklist",
                       "other"}}
    \cup {DataP("buy", "7d"), DataP("buy", "1y"), DataP("admin_free_add", "x")}
    \cup {DataN(c, 3) : c \in {"admin_page", "admin_u", "admin_free_add", "admin_free_del",
                               "admin_block", "admin_unblock"}}

\* What the others press: the buttons shown to every user, and two of the
\* administrator's.
UserData ==
    {Data0(c) : c \in {"noop", "open_sub", "help", "status", "privacy", "support",
                       "support_cancel", "admin", "admin_paid_toggle", "other"}}
    \cup {DataP("buy", "7d"), DataP("buy", "1y")}

\* One update handled; answer_callback_query answers or raises.
HandleAck(upd, ok) ==
    LET s == _process_update([St EXCEPT !.ack_ok = ok], upd)
    IN  /\ Becomes(s)
        /\ update' = upd
        /\ nsteps' = nsteps + 1
        /\ UNCHANGED <<offset, updates, inbox, handled>>

OnCallbackQueryQ ==
    /\ nsteps < MaxStepsCallback
    /\ \E from \in UserIds \cup {0}, id \in {"", "0", "q"}, data \in CallbackData,
          ok \in BOOLEAN :
          /\ id # "q" => ok
          /\ from # ADMIN_ID => data \in UserData
          /\ HandleAck([callback_query |-> [id |-> id, data |-> data, from |-> from]], ok)

OnMessageQ ==
    /\ nsteps < MaxStepsCallback
    /\ \E u \in {ADMIN_ID, 2}, text \in {TxtAdmin, TxtBlacklist} :
          HandleAck([message |-> Msg(u, u, "private", 1, text, "", "")], TRUE)

NextCallback == OnCallbackQueryQ \/ OnMessageQ

SpecCallback == InitCallback /\ [][NextCallback]_vars

\* ------------------------------------------------------------ SpecFlows
\* Private messages of the administrator and of user 2: the commands of
\* the reply keyboard, free text, price lists, /start and a photo; the
\* price-edit and support prompts are opened from the inline keyboard.
\* Everybody has started the bot and has access; nobody is blocked.
InitFlows == InitWith(EmptyTable, {}, EmptyTable, BotUsers(UserIds), EmptyTable)

FreeTexts == {"hello", "7=20", "7=abc", "/start", ""}

OnCallbackQueryF ==
    /\ nsteps < MaxStepsFlows
    /\ \E from \in {ADMIN_ID, 2}, cmd \in {"admin_prices_edit", "support"} :
          /\ cmd = "admin_prices_edit" => from = ADMIN_ID
          /\ Handle([callback_query |-> [id |-> "q", data |-> Data0(cmd), from |-> from]])

OnMenuCommand ==
    /\ nsteps < MaxStepsFlows
    /\ \E u \in {ADMIN_ID, 2}, text \in MenuTexts :
          Handle([message |-> Msg(u, u, "private", 1, text, "", "")])

OnFreeMessage ==
    /\ nsteps < MaxStepsFlows
    /\ \E u \in {ADMIN_ID, 2}, text \in FreeTexts :
          Handle([message |-> Msg(u, u, "private", 2, text,
                                  IF text = "" THEN "photo" ELSE "", "")])

NextFlows == OnCallbackQueryF \/ OnMenuCommand \/ OnFreeMessage

SpecFlows == InitFlows /\ [][NextFlows]_vars

\* ------------------------------------------------------------ Spec: ownership of a connection
\* Paid mode is on; user 2 has a long subscription and user 3 one that runs
\* out while the bot is up. User 4 is the outside participant of a business
\* chat and never talks to the bot.
MaxStepsOwn == 4

InitOwn ==
    \E B \in {{ADMIN_ID, 2}, {ADMIN_ID, 2, 3}} :
        InitWith(PaidModeOn, {},
                 [u \in {2, 3} |-> IF u = 2 THEN T0 + Dur30d ELSE T0 + Dur7d],
                 BotUsers(B), EmptyTable)

OnBusinessConnectionO ==
    /\ nsteps < MaxStepsOwn
    /\ \E uid \in {2, 3} : Handle([business_connection |-> [cid |-> "c1", user_id |-> uid]])

OnBindButtonO ==
    /\ nsteps < MaxStepsOwn
    /\ \E u \in {2, 3} : Handle([message |-> Msg(u, u, "private", 1, TxtBindBusiness, "", "")])

OnBusinessMessageO ==
    /\ nsteps < MaxStepsOwn
    /\ \E from \in {2, 3, 4}, chat \in {3, 4} :
          /\ from = 4 => chat = 4
          /\ Handle([business_message |-> Msg(from, chat, "private", 2, "a", "", "c1")])

TickO ==
    /\ nsteps < MaxStepsOwn
    /\ now = T0
    /\ Pass(Dur14d)

NextOwn == OnBusinessConnectionO \/ OnBindButtonO \/ OnBusinessMessageO \/ TickO

SpecOwn == InitOwn /\ [][NextOwn]_vars

\* ------------------------------------------------------------ Spec: rescue of replied-to media
\* Connection c1 belongs to user 2. The other side of business chats 3 and 4
\* replies to the timer photo with message id MaxMsgId; the administrator
\* may purge the cache.
MaxStepsRescue == 4

InitRescue ==
    InitWith(EmptyTable, {}, EmptyTable, BotUsers({ADMIN_ID, 2}), ConnOf("c1", 2))

OnReplyR ==
    /\ nsteps < MaxStepsRescue
    /\ \E chat \in {3, 4}, mid \in {1, 2} :
          Handle([business_message |->
                     [Msg(chat, chat, "private", mid, "a", "", "c1") EXCEPT
                         !.reply = <<Msg(2, chat, "private", MaxMsgId, "", "photo", "")>>]])

OnPurgeR ==
    /\ nsteps < MaxStepsRescue
    /\ Handle([callback_query |->
                  [id |-> "q", data |-> Data0("admin_cache_clear_yes"), from |-> ADMIN_ID]])

NextRescue == OnReplyR \/ OnPurgeR

SpecRescue == InitRescue /\ [][NextRescue]_vars

\* ------------------------------------------------------------ Spec: batches of updates
\* The while loop of main(), one getUpdates response at a time. Here inbox
\* holds the result list of the last successful response, in the order the
\* response gives it, and updates what the for loop has yet to process.
MaxBatches == 2
MaxBatchLen == 2

PolledUpdates == [update_id : 1..MaxUpdates, body : PollBodies]

Batches ==
    {<<>>} \cup {<<u>> : u \in PolledUpdates}
           \cup {<<u, v>> : u, v \in PolledUpdates}

\* getUpdates answers ok: the result holds at most MaxBatchLen updates with
\* different ids, none below the offset asked for, in any order.
GetUpdatesOk ==
    /\ updates = <<>>
    /\ nsteps < MaxBatches
    /\ \E batch \in Batches :
          /\ Len(batch) <= MaxBatchLen
          /\ \A i, j \in DOMAIN batch : i # j => batch[i].update_id # batch[j].update_id
          /\ \A i \in DOMAIN batch : batch[i].update_id >= offset
          /\ inbox' = batch
          /\ updates' = batch
    /\ update' = [getUpdates |-> TRUE]
    /\ nsteps' = nsteps + 1
    /\ UNCHANGED <<now, kv, free_users, subscriptions, users, business_connections,
                   business_bind_state, support_state, broadcast_state, access_state,
                   owner_chats, messages, media, forwarded, files, nfile, OWNER_ID,
                   _RECENT_NOTIFY, eff, offset, handled>>

\* getUpdates answers with ok false: a warning, a sleep and the next round.
GetUpdatesNotOk ==
    /\ updates = <<>>
    /\ nsteps < MaxBatches
    /\ update' = [getUpdates |-> FALSE]
    /\ nsteps' = nsteps + 1
    /\ UNCHANGED <<now, kv, free_users, subscriptions, users, business_connections,
                   business_bind_state, support_state, broadcast_state, access_state,
                   owner_chats, messages, media, forwarded, files, nfile, OWNER_ID,
                   _RECENT_NOTIFY, eff, offset, updates, inbox, handled>>

NextBatch == GetUpdatesOk \/ GetUpdatesNotOk \/ ProcessNext

SpecBatch == InitPoll /\ [][NextBatch]_vars

\* ------------------------------------------------------------ Spec: prices of the plans
\* Paid mode is on. The kv table of the database file holds no price for
\* plan 7d, or one of 20, 0 or -5. The administrator edits the prices and
\* user 2 buys and pays for plan 7d.
MaxStepsPrice == 3

StoredPrices == {20, 0, -5}

InitPrice ==
    \/ InitWith(PaidModeOn, {}, EmptyTable, BotUsers(UserIds), EmptyTable)
    \/ \E p0 \in StoredPrices :
          InitWith([k \in {"paid_mode", "stars_price_7d"} |->
                       IF k = "paid_mode" THEN "1" ELSE p0],
                   {}, EmptyTable, BotUsers(UserIds), EmptyTable)

OnPricesEditP ==
    /\ nsteps < MaxStepsPrice
    /\ Handle([callback_query |->
                  [id |-> "q", data |-> Data0("admin_prices_edit"), from |-> ADMIN_ID]])

OnPriceTextP ==
    /\ nsteps < MaxStepsPrice
    /\ \E text \in {"7=0", "7=20", "hello"} :
          Handle([message |-> Msg(ADMIN_ID, ADMIN_ID, "private", 2, text, "", "")])

OnBuyP ==
    /\ nsteps < MaxStepsPrice
    /\ \E plan \in {"7d", "14d"} :
          Handle([callback_query |-> [id |-> "q", data |-> DataP("buy", plan), from |-> 2]])

OnPaidP ==
    /\ nsteps < MaxStepsPrice
    /\ Handle([message |-> Paid(Msg(2, 2, "private", 1, "", "", ""), <<"sub", "7d", "2">>)])

NextPrice == OnPricesEditP \/ OnPriceTextP \/ OnBuyP \/ OnPaidP

SpecPrice == InitPrice /\ [][NextPrice]_vars

\* ------------------------------------------------------------ Spec: edits and the cache bound
\* Connection c1 belongs to user 2; c2 is a connection the bot has no row
\* for. Messages of business chat 3 and of user 2's private chat are sent
\* and edited, with any message id.
MaxStepsEdits == 3

InitEdits ==
    InitWith(EmptyTable, {}, EmptyTable, BotUsers({ADMIN_ID, 2}), ConnOf("c1", 2))

OnBusinessMessageE ==
    /\ nsteps < MaxStepsEdits
    /\ \E mid \in MsgIds :
          Handle([business_message |-> Msg(3, 3, "private", mid, "a", "", "c1")])

OnEditedBusinessMessageE ==
    /\ nsteps < MaxStepsEdits
    /\ \E mid \in MsgIds, cid \in {"c1", "c2"} :
          Handle([edited_business_message |->
                     Edited(Msg(3, 3, "private", mid, "b", "", cid), 5)])

OnEditedMessageE ==
    /\ nsteps < MaxStepsEdits
    /\ \E mid \in MsgIds, chat_type \in {"private", "group"} :
          Handle([edited_message |-> Edited(Msg(2, 2, chat_type, mid, "b", "", ""), 5)])

NextEdits == OnBusinessMessageE \/ OnEditedBusinessMessageE \/ OnEditedMessageE

SpecEdits == InitEdits /\ [][NextEdits]_vars

\* ------------------------------------------------------------ claims
PaidUntilOf(u) == IF u \in DOMAIN subscriptions THEN subscriptions[u] ELSE 0
OwnerOf(cid) ==
    IF cid \in DOMAIN business_connections THEN business_connections[cid].owner_user_id ELSE 0
IsBotUser(u) == u \in DOMAIN users /\ users[u].bot_user
PaidModeIsOn == "paid_mode" \in DOMAIN kv /\ kv["paid_mode"] \in {"1", "true", "yes"}
HasAccess(u) ==
    u = ADMIN_ID \/ ~PaidModeIsOn \/ u \in free_users \/ PaidUntilOf(u) > now

\* C1: handling a successful payment of user uid for a known plan at time
\* now, with paid_until T stored for uid before (0 without a row), stores
\* and returns paid_until = max(T, now) + the plan's duration.
C1_AdditiveRenewal ==
    [][\A uid \in UserIds, plan \in PlanNames :
          (/\ DOMAIN update' = {"message"}
           /\ update'.message.chat = uid
           /\ update'.message.successful_payment = << <<"sub", plan, "uid">> >>)
          => /\ uid \in DOMAIN subscriptions'
             /\ subscriptions'[uid] = Max(PaidUntilOf(uid), now) + STARS_DURATIONS[plan]
             /\ \E i \in DOMAIN eff' :
                   /\ eff'[i].op = "sub_extend"
                   /\ eff'[i].to = uid
                   /\ eff'[i].t2 = subscriptions'[uid]]_vars

\* A running subscription was extended and kept its unused time.
C1_Witness ==
    /\ DOMAIN update = {"message"}
    /\ \E i \in DOMAIN eff :
          /\ eff[i].op = "sub_extend"
          /\ eff[i].t1 > now
          /\ eff[i].t2 = eff[i].t1 + eff[i].mid
          /\ PaidUntilOf(eff[i].to) = eff[i].t2

C3_BusinessMessageRemapIsSafe ==
    [][\A c \in ConnIds :
          (/\ DOMAIN update' = {"business_message"}
           /\ OwnerOf(c) # 0
           /\ c \in DOMAIN business_connections'
           /\ business_connections'[c].owner_user_id # OwnerOf(c))
          => /\ OwnerOf(c) = ADMIN_ID \/ ~IsBotUser(OwnerOf(c))
             /\ IsBotUser(business_connections'[c].owner_user_id)]_vars

\* The owner a business_message is routed to when it arrives has
\* paid_until <= now, is not a free user and is not the administrator.
RoutedToLapsedOwner(m) ==
    LET o == OwnerOf(m.cid)
    IN  o # 0 /\ o # ADMIN_ID /\ o \notin free_users /\ PaidUntilOf(o) <= now

IsCacheWrite(e) ==
    \/ e.op \in {"put_message", "set_media", "download", "forwarded_set"}
    \/ e.op = "send" /\ e.a \in {"timer_media", "timer_media_header"}

EventCid ==
    IF DOMAIN update = {"edited_business_message"} THEN update.edited_business_message.cid
    ELSE IF DOMAIN update = {"deleted_business_messages"}
    THEN update.deleted_business_messages.cid
    ELSE ""

\* C5: an edited_business_message or deleted_business_messages event whose
\* connection has no mapping, or whose mapped owner has no effective
\* access, sends nothing to anybody.
C5_NoOwnerNoNotice ==
    [][(/\ EventCid' # ""
        /\ (OwnerOf(EventCid') = 0 \/ ~HasAccess(OwnerOf(EventCid'))))
       => \A i \in DOMAIN eff' : eff'[i].op # "send"]_vars

\* An edit in a chat of an unmapped connection was handled while the
\* administrator could have been written to.
C5_Witness ==
    /\ DOMAIN update = {"edited_business_message"}
    /\ OwnerOf(EventCid) = 0
    /\ IsBotUser(ADMIN_ID)
    /\ update.edited_business_message.text = "b"
    /\ \E i \in DOMAIN eff : eff[i].op = "put_message"
    /\ \A i \in DOMAIN eff : eff[i].op # "send"

\* C6: _has_active_subscription(u) is true exactly when u is the
\* administrator, or paid mode is off, or u is a free user, or u's
\* paid_until is strictly greater than now.
C6_EffectiveAccess ==
    \A u \in UserIds : _has_active_subscription(St, u) <=> HasAccess(u)

\* Under paid mode, a user who is not free and whose paid_until is now has
\* no access.
C6_Witness ==
    /\ PaidModeIsOn
    /\ 2 \notin free_users
    /\ PaidUntilOf(2) = now
    /\ ~_has_active_subscription(St, 2)

IsBlocked(u) == u # ADMIN_ID /\ u \in DOMAIN users /\ users[u].blocked
CanBeWrittenTo(u) == IsBotUser(u) /\ ~IsBlocked(u)
KeyIsLive(k) ==
    k \in DOMAIN _RECENT_NOTIFY /\ now - _RECENT_NOTIFY[k] < RECENT_NOTIFY_TTL_SEC
CachedSender(chat, mid) ==
    IF <<chat, mid>> \in DOMAIN messages THEN messages[<<chat, mid>>].payload.from ELSE 0
IsDeleteNotice(e) == e.op = "send" /\ e.a \in {"deleted", "deleted_media"}
Sends(es) == {i \in DOMAIN es : es[i].op = "send"}

\* C7: a deleted_business_messages trigger for message id mid, owner o
\* (mapped, with access, reachable in private, not the author, the author
\* not blocked) produces exactly one delete notification to o when no
\* trigger for (o, mid) was notified less than 120 seconds before, and
\* none when one was: two deliveries inside the window give one
\* notification, and a third after the window gives a second.
C7_DeleteDedup ==
    [][(DOMAIN update' = {"deleted_business_messages"})
       => LET d == update'.deleted_business_messages
              o == OwnerOf(d.cid)
              mid == d.message_ids[1]
              author == CachedSender(d.chat, mid)
              notices == {i \in DOMAIN eff' : IsDeleteNotice(eff'[i])}
          IN  (/\ o # 0 /\ HasAccess(o) /\ CanBeWrittenTo(o)
               /\ author # o /\ ~IsBlocked(author))
              => IF KeyIsLive(<<"del", o, mid>>)
                 THEN notices = {}
                 ELSE /\ Cardinality(notices) = 1
                      /\ \A i \in notices : eff'[i].to = o /\ eff'[i].mid = mid]_vars

RowsOf(tab, chat) == {k \in DOMAIN tab : k[1] = chat}

\* C8: when a message or business_message for chat C has been cached, at
\* most MAX_MESSAGES_PER_CHAT rows remain for C, they are the most recently
\* created ones: the row of the message itself and that of the message it
\* replies to, both written in this update, are among them, and no row
\* that went is younger than a row that stayed.
C8_EvictionKeepsNewest ==
    [][\A key \in {"message", "business_message"} :
          (DOMAIN update' = {key} /\ \E i \in DOMAIN eff' : eff'[i].op = "put_message")
          => LET m == update'[key]
                 written == {<<m.chat, m.message_id>>}
                            \cup {<<m.chat, m.reply[i].message_id>> : i \in DOMAIN m.reply}
                 stayed == RowsOf(messages', m.chat)
                 went == RowsOf(messages, m.chat) \ stayed
             IN  /\ Cardinality(stayed) <= MAX_MESSAGES_PER_CHAT
                 /\ written \subseteq stayed
                 /\ \A g \in went, k \in stayed :
                       messages[g].created_at <= messages'[k].created_at]_vars

\* The text a cached payload shows.
CachedText(tab, chat, mid) == _msg_text(tab[<<chat, mid>>].payload)

\* C9: for a cached message of an owner with access, an
\* edited_business_message whose text equals the cached text sends nothing
\* and leaves that text cached; one whose text differs sends the owner
\* exactly one notification carrying the cached text as old and the new
\* text as new, and the new text is cached (the owner can be written to, is
\* not the editor, the editor is not blocked, and no notification for the
\* same edit went out in the last 120 seconds).
C9_EditDiff ==
    [][(DOMAIN update' = {"edited_business_message"})
       => LET m == update'.edited_business_message
              o == OwnerOf(m.cid)
              k == <<m.chat, m.message_id>>
          IN  (o # 0 /\ HasAccess(o) /\ k \in DOMAIN messages)
              => LET old == CachedText(messages, m.chat, m.message_id)
                     new == _msg_text(m)
                 IN  /\ old = new
                        => /\ Sends(eff') = {}
                           /\ CachedText(messages', m.chat, m.message_id) = old
                     /\ (/\ old # new
                         /\ CanBeWrittenTo(o) /\ m.from # o /\ ~IsBlocked(m.from)
                         /\ ~KeyIsLive(<<"edit", o, m.message_id, m.edit_date>>))
                        => /\ Cardinality(Sends(eff')) = 1
                           /\ \A i \in Sends(eff') :
                                 /\ eff'[i].to = o /\ eff'[i].a = "edit"
                                 /\ eff'[i].b = old /\ eff'[i].c = new
                           /\ CachedText(messages', m.chat, m.message_id) = new]_vars

\* The edit a -> b of a cached message was notified once and b is cached.
C9_Witness ==
    /\ DOMAIN update = {"edited_business_message"}
    /\ Cardinality(Sends(eff)) = 1
    /\ \E i \in Sends(eff) : eff[i].a = "edit" /\ eff[i].b = "a" /\ eff[i].c = "b"
    /\ CachedText(messages, 3, 1) = "b"

IsCacheUpdate == DOMAIN update \in {{"message"}, {"business_message"}}

\* C10: in the handling of a message or business_message, where rows go by
\* eviction only, every media row deleted had its file removed before, in
\* the same handling, and the file is gone afterwards; and no message row
\* evicted leaves a media row behind.
C10_EvictionRemovesFileFirst ==
    IsCacheUpdate
    => /\ \A i \in DOMAIN eff :
             (eff[i].op = "delete_media" /\ eff[i].t1 # 0)
             => /\ \E j \in 1..(i - 1) : eff[j].op = "unlink" /\ eff[j].t1 = eff[i].t1
                /\ eff[i].t1 \notin files
       /\ \A i \in DOMAIN eff :
             eff[i].op = "delete_message" => <<eff[i].chat, eff[i].mid>> \notin DOMAIN media

\* A chat eviction removed a message row together with its media.
C10_Witness ==
    /\ IsCacheUpdate
    /\ \E i \in DOMAIN eff, j \in DOMAIN eff :
          /\ eff[i].op = "delete_media" /\ eff[i].t1 # 0
          /\ eff[j].op = "delete_message" /\ eff[j].chat = eff[i].chat
          /\ eff[j].mid = eff[i].mid /\ j = i + 1

\* The paths the rows of table media name.
MediaPaths == {media[k].path : k \in DOMAIN media}

\* C11: after every update, no file is left in the media directory without
\* a media row that names it: whenever a media row is deleted or replaced
\* (eviction, delete handling, re-caching, purge) its file is gone too.
C11_NoOrphanFile == files \subseteq MediaPaths

\* The order in which _process_update looks for the keys.
BranchOrder == <<"message", "business_message", "edited_business_message",
                 "deleted_business_messages", "edited_message">>
FirstKey(upd) ==
    BranchOrder[CHOOSE i \in DOMAIN BranchOrder :
                   /\ BranchOrder[i] \in DOMAIN upd
                   /\ \A j \in 1..(i - 1) : BranchOrder[j] \notin DOMAIN upd]
Only(upd, key) == [k \in {key} |-> upd[k]]

\* C12: an update is handled by one branch, the first that matches: an
\* update that carries several of the keys message, business_message,
\* edited_business_message, deleted_business_messages, edited_message
\* leaves the tables, the files and the calls made as the update with the
\* first of its keys alone leaves them.
C12_OneBranch ==
    [][(DOMAIN update' \subseteq LateKeys /\ DOMAIN update' # {})
       => \E tie \in {"asc", "desc"} :
             Becomes(_process_update([St EXCEPT !.tie = tie],
                                     Only(update', FirstKey(update'))))]_vars

\* C13: an update whose handling raises counts as processed like any
\* other: the rest of its batch stays to be processed in order, offset
\* moves past it, and no update is ever processed twice or out of order;
\* nothing is fetched while a batch is being processed, and nothing in a
\* batch lies before offset.
C13_FailureIsolation ==
    /\ [](/\ \A i, j \in DOMAIN handled :
                i < j => handled[i].update_id < handled[j].update_id
          /\ \A i \in DOMAIN handled : handled[i].update_id < offset
          /\ \A i \in DOMAIN updates : updates[i].update_id >= offset)
    /\ [][updates # <<>>
          => \/ UNCHANGED <<updates, handled, offset>>
             \/ /\ updates' = Tail(updates)
                /\ Len(handled') = Len(handled) + 1
                /\ handled'[Len(handled')].update_id = Head(updates).update_id
                /\ handled'[Len(handled')].raised
                      = (\E i \in DOMAIN eff' : eff'[i].op = "raise")
                /\ offset' = Head(updates).update_id + 1]_vars

\* The second update of a batch raised and the third was processed after
\* it, all three in one batch.
C13_Witness ==
    /\ Len(handled) = 3
    /\ handled[2].raised
    /\ Len(inbox) = 3
    /\ updates = <<>>
    /\ offset = 4

IsNotified(conns, cid) == cid \in DOMAIN conns /\ conns[cid].notified
ConnectedNotices(es) == {i \in DOMAIN es : es[i].op = "send" /\ es[i].a = "connected"}

\* C14: the "connected" notice of a connection goes out at most once: an
\* update sends at most one, only a business_connection update does, only
\* to its user, only when that user has started the bot and has access and
\* the connection was not marked notified before; the connection is marked
\* notified by the same update, and a mark once set stays.
C14_ConnectedOnce ==
    [][/\ Cardinality(ConnectedNotices(eff')) <= 1
       /\ \A i \in ConnectedNotices(eff') :
             /\ DOMAIN update' = {"business_connection"}
             /\ eff'[i].b = update'.business_connection.cid
             /\ eff'[i].to = update'.business_connection.user_id
             /\ IsBotUser(eff'[i].to) /\ HasAccess(eff'[i].to)
             /\ ~IsNotified(business_connections, eff'[i].b)
             /\ IsNotified(business_connections', eff'[i].b)
       /\ \A cid \in ConnIds :
             IsNotified(business_connections, cid) => IsNotified(business_connections', cid)]_vars

\* c1 was marked notified by an earlier update, and a business_connection
\* update for c1 of its owner, who has started the bot and has access, sent
\* nothing.
C14_Witness ==
    /\ DOMAIN update = {"business_connection"}
    /\ IsNotified(business_connections, "c1")
    /\ ConnectedNotices(eff) = {}
    /\ IsBotUser(update.business_connection.user_id)
    /\ HasAccess(update.business_connection.user_id)
    /\ OwnerOf("c1") = update.business_connection.user_id

\* Nothing stored changes: the tables, the files, the module globals.
StoredUnchanged ==
    UNCHANGED <<kv, free_users, subscriptions, users, business_connections,
                business_bind_state, support_state, broadcast_state, access_state,
                owner_chats, messages, media, forwarded, files, nfile, OWNER_ID,
                _RECENT_NOTIFY>>

\* C15: a pre_checkout_query with an id is answered exactly once, with ok
\* when its currency is the payment currency XTR and its payload starts
\* with "sub:", and otherwise with a failure that carries an error
\* message; nothing else is done and nothing stored changes.
C15_PreCheckout ==
    [][(DOMAIN update' = {"pre_checkout_query"} /\ update'.pre_checkout_query.id # "")
       => LET q == update'.pre_checkout_query
              valid == q.currency = STARS_CURRENCY /\ StartsWithSub(q.invoice_payload)
          IN  /\ Len(eff') = 1
              /\ eff'[1].op = "answer_pre_checkout"
              /\ eff'[1].a = q.id
              /\ eff'[1].b = IF valid THEN "ok" ELSE "fail"
              /\ ~valid => eff'[1].c # ""
              /\ StoredUnchanged]_vars

\* The payload of the successful payment an update carries, <<>> when it
\* carries none.
PaymentOf(upd) ==
    IF DOMAIN upd = {"message"} /\ upd.message.successful_payment # <<>>
    THEN upd.message.successful_payment[1] ELSE <<>>
NamesPlan(payload) == Len(payload) >= 2 /\ payload[1] = "sub" /\ payload[2] \in PlanNames
UntilIn(subs, u) == IF u \in DOMAIN subs THEN subs[u] ELSE 0

\* C16: a successful payment "sub:<plan>:..." for one of the plans 7d, 14d,
\* 30d moves paid_until of the paying chat's user to max(paid_until, now)
\* plus the duration of the plan, and nothing fences a replay: the same
\* payment handled again at once adds the duration once more.
C16_PaymentExtends ==
    [][NamesPlan(PaymentOf(update'))
       => LET uid == update'.message.chat
              seconds == STARS_DURATIONS[PaymentOf(update')[2]]
          IN  /\ UntilIn(subscriptions', uid) = Max(UntilIn(subscriptions, uid), now) + seconds
              /\ (update = update' /\ now' = now)
                 => UntilIn(subscriptions', uid) = UntilIn(subscriptions, uid) + seconds]_vars

\* The payment for 14 days was handled twice in a row by a user without a
\* subscription, and paid_until lies two times 14 days ahead.
C16_Witness ==
    /\ nsteps = 2
    /\ PaymentOf(update) = <<"sub", "14d", "2">>
    /\ PaidUntilOf(2) = now + 2 * Dur14d
    /\ \E i \in DOMAIN eff :
          eff[i].op = "sub_extend" /\ eff[i].t1 = now + Dur14d /\ eff[i].t2 = now + 2 * Dur14d

\* C17: a successful payment whose payload does not start with "sub:" or
\* names no known plan is ignored: nothing is stored (no subscription row,
\* no cached message), nothing is sent, and nothing is raised.
C17_MalformedPaymentIgnored ==
    [][(PaymentOf(update') # <<>> /\ ~NamesPlan(PaymentOf(update')))
       => /\ eff' = <<>>
          /\ StoredUnchanged]_vars

\* The payment "sub:1y:2" for an unknown plan was handled: user 2 has the
\* paid_until of before and nothing was sent.
C17_Witness ==
    /\ nsteps = 1
    /\ PaymentOf(update) = <<"sub", "1y", "2">>
    /\ PaidUntilOf(2) <= T0 + 100
    /\ <<2, 1>> \notin DOMAIN messages
    /\ eff = <<>>

\* The users a business edit or delete in chat C of owner O is for: O,
\* and C too when C has started the bot and has O among its own chats.
MutualRecipients(O, C) ==
    {O} \cup (IF IsBotUser(C) /\ <<C, O>> \in owner_chats THEN {C} ELSE {})
NotifiedUsers(es) == {es[i].to : i \in Sends(es)}

\* C18: a business edit or delete in chat C of owner O, who has access,
\* notifies nobody outside O and, when C has started the bot and has O
\* among its own chats, C, the editor or author left out; and it notifies
\* all of these when the notice is due (the text changed, the editor or
\* author is not blocked, every one of them can be written to and none was
\* notified of the same event in the last 120 seconds).
C18_MutualRecipients ==
    [][/\ (DOMAIN update' = {"edited_business_message"})
          => LET m == update'.edited_business_message
                 O == OwnerOf(m.cid)
                 k == <<m.chat, m.message_id>>
                 expected == MutualRecipients(O, m.chat) \ {m.from}
                 due == /\ k \in DOMAIN messages => CachedText(messages, k[1], k[2]) # _msg_text(m)
                        /\ ~IsBlocked(m.from)
                        /\ \A r \in expected :
                              /\ CanBeWrittenTo(r)
                              /\ ~KeyIsLive(<<"edit", r, m.message_id, m.edit_date>>)
             IN  (O # 0 /\ HasAccess(O))
                 => /\ NotifiedUsers(eff') \subseteq expected
                    /\ due => NotifiedUsers(eff') = expected
       /\ (DOMAIN update' = {"deleted_business_messages"})
          => LET d == update'.deleted_business_messages
                 O == OwnerOf(d.cid)
                 mid == d.message_ids[1]
                 author == CachedSender(d.chat, mid)
                 expected == MutualRecipients(O, d.chat) \ {author}
                 due == /\ ~IsBlocked(author)
                        /\ \A r \in expected :
                              CanBeWrittenTo(r) /\ ~KeyIsLive(<<"del", r, mid>>)
             IN  (O # 0 /\ HasAccess(O))
                 => /\ NotifiedUsers(eff') \subseteq expected
                    /\ due => NotifiedUsers(eff') = expected]_vars

\* C19: when an edited_business_message of a connection whose owner has
\* access has been handled, the cache holds the incoming payload for its
\* chat and message id, whether a notification went out or not.
C19_EditAlwaysCached ==
    [][(DOMAIN update' = {"edited_business_message"})
       => LET m == update'.edited_business_message
              O == OwnerOf(m.cid)
              k == <<m.chat, m.message_id>>
          IN  (O # 0 /\ HasAccess(O))
              => /\ k \in DOMAIN messages'
                 /\ messages'[k].payload = m]_vars

\* C20: when deleted_business_messages names a message whose author is a
\* blocked user other than the administrator, no notification is sent for
\* it and its message row and its media row are removed from the cache.
C20_BlockedAuthorDelete ==
    [][(DOMAIN update' = {"deleted_business_messages"})
       => LET d == update'.deleted_business_messages
              O == OwnerOf(d.cid)
              k == <<d.chat, d.message_ids[1]>>
          IN  (O # 0 /\ HasAccess(O) /\ IsBlocked(CachedSender(k[1], k[2])))
              => /\ Sends(eff') = {}
                 /\ k \notin DOMAIN messages'
                 /\ k \notin DOMAIN media']_vars

HasCachedMedia(chat, mid) == <<chat, mid>> \in DOMAIN messages /\ <<chat, mid>> \in DOMAIN media

\* C21: when a deleted_business_messages event names a message that has a
\* cached media row (and the owner is mapped, has access, can be written
\* to, is not the author, the author is not blocked and no dedup entry is
\* live), the owner is sent the delete notification as a media send of the
\* kind of the row, from the file of the row, with the text as caption
\* (for a video note: the note, then the text as a message of its own).
C21_DeletedMediaSent ==
    [][(DOMAIN update' = {"deleted_business_messages"})
       => LET d == update'.deleted_business_messages
              o == OwnerOf(d.cid)
              mid == d.message_ids[1]
              author == CachedSender(d.chat, mid)
          IN  (/\ o # 0 /\ HasAccess(o) /\ CanBeWrittenTo(o)
               /\ author # o /\ ~IsBlocked(author)
               /\ ~KeyIsLive(<<"del", o, mid>>)
               /\ HasCachedMedia(d.chat, mid))
              => \E i \in DOMAIN eff' :
                    /\ eff'[i].op = "send" /\ eff'[i].a = "deleted_media"
                    /\ eff'[i].to = o /\ eff'[i].mid = mid
                    /\ eff'[i].c = media[<<d.chat, mid>>].kind
                    /\ eff'[i].t1 = media[<<d.chat, mid>>].path
                    /\ IF eff'[i].c = "video_note"
                       THEN /\ i < Len(eff')
                            /\ eff'[i + 1].op = "send" /\ eff'[i + 1].a = "deleted"
                            /\ eff'[i + 1].to = o
                       ELSE eff'[i].b = CachedText(messages, d.chat, mid)]_vars

DeleteNoticesAbout(es, mid) == {i \in DOMAIN es : IsDeleteNotice(es[i]) /\ es[i].mid = mid}

\* C22: in a deleted_business_messages event of an owner o who has access
\* and can be written to, every message id of the event is settled on its
\* own: when its cached author is o, or the key ("del", o, id) was notified
\* less than 120 seconds before, o gets no delete notification about it;
\* otherwise o gets exactly one, and the key, which holds the recipient and
\* the message id and nothing else, is recorded (authors who are blocked
\* are left aside).
C22_DeletePerMessage ==
    [][(DOMAIN update' = {"deleted_business_messages"})
       => LET d == update'.deleted_business_messages
              o == OwnerOf(d.cid)
          IN  (o # 0 /\ HasAccess(o) /\ CanBeWrittenTo(o))
              => \A j \in DOMAIN d.message_ids :
                    LET mid == d.message_ids[j]
                        author == CachedSender(d.chat, mid)
                        notices == DeleteNoticesAbout(eff', mid)
                    IN  ~IsBlocked(author)
                        => IF author = o \/ KeyIsLive(<<"del", o, mid>>)
                           THEN notices = {}
                           ELSE /\ Cardinality(notices) = 1
                                /\ \A i \in notices : eff'[i].to = o
                                /\ <<"del", o, mid>> \in DOMAIN _RECENT_NOTIFY'
                                /\ _RECENT_NOTIFY'[<<"del", o, mid>>] = now]_vars

\* The update handled last was a delete event for this chat in which the
\* message was removed from the cache with u recorded as its author.
JustDeletedBy(u, chat, mid) ==
    /\ DOMAIN update = {"deleted_business_messages"}
    /\ update.deleted_business_messages.chat = chat
    /\ \E i \in DOMAIN eff :
          /\ eff[i].op = "log_event" /\ eff[i].a = "deleted_message"
          /\ eff[i].to = u /\ eff[i].chat = chat /\ eff[i].mid = mid

\* C23: a deleted_business_messages event never sends the owner a delete
\* notification about a message the owner wrote: neither when the message
\* is still cached with the owner as its author, nor when the event comes
\* again after an earlier delivery has removed that message from the cache.
C23_OwnDeleteSilent ==
    [][(DOMAIN update' = {"deleted_business_messages"})
       => LET d == update'.deleted_business_messages
              o == OwnerOf(d.cid)
          IN  \A j \in DOMAIN d.message_ids :
                 LET mid == d.message_ids[j]
                 IN  (o # 0 /\ (CachedSender(d.chat, mid) = o \/ JustDeletedBy(o, d.chat, mid)))
                     => \A i \in DeleteNoticesAbout(eff', mid) : eff'[i].to # o]_vars

IsEditNotice(e) == e.op = "send" /\ e.a = "edit"
EditNoticesAbout(es, mid) == {i \in DOMAIN es : IsEditNotice(es[i]) /\ es[i].mid = mid}

\* The update handled last was of the given kind, about message mid in a
\* chat other than chat, and a notification about it went out.
JustNotifiedElsewhere(key, chat, mid) ==
    /\ DOMAIN update = {key}
    /\ update[key].chat # chat
    /\ IF key = "deleted_business_messages"
       THEN DeleteNoticesAbout(eff, mid) # {}
       ELSE update[key].message_id = mid /\ EditNoticesAbout(eff, mid) # {}

IsAlert(e) == e.op = "answer_callback" /\ e.b = "blocked_alert"

\* C25: a callback_query pressed by a blocked user who is not the
\* administrator changes no table and does nothing but answer the query
\* with the alert, once (not even that when the query has no id): the
\* user's row stays as it was, bot_user included, every pending flag stays
\* and no sub-handler acts.  A callback_query of the administrator is never
\* answered with the alert, whatever the administrator's row says: the
\* administrator is marked as a bot user and the query is routed.
C25_BlockedCallbackGate ==
    [][(DOMAIN update' = {"callback_query"})
       => LET cq == update'.callback_query
          IN  /\ (cq.from # 0 /\ IsBlocked(cq.from))
                 => /\ UNCHANGED <<kv, free_users, subscriptions, users, business_connections,
                                   business_bind_state, support_state, broadcast_state,
                                   access_state, owner_chats, messages, media, forwarded,
                                   files, nfile, OWNER_ID, _RECENT_NOTIFY>>
                    /\ \A i \in DOMAIN eff' : IsAlert(eff'[i]) /\ eff'[i].a = cq.id
                    /\ Len(eff') = IF cq.id # "" THEN 1 ELSE 0
              /\ (cq.from = ADMIN_ID)
                 => /\ \A i \in DOMAIN eff' : ~IsAlert(eff'[i])
                    /\ ADMIN_ID \in DOMAIN users' /\ users'[ADMIN_ID].bot_user
                    /\ (cq.data = Data0("admin") => \E i \in DOMAIN eff' :
                           eff'[i].op = "send" /\ eff'[i].a = "admin_panel")]_vars

\* C25 witness: user 3, blocked and never seen in private, has pressed a
\* button and got the alert, and the administrator's row carries the
\* blocked mark.
C25_Witness ==
    /\ DOMAIN update = {"callback_query"}
    /\ update.callback_query.from = 3 /\ update.callback_query.id = "q"
    /\ users[3].blocked /\ ~users[3].bot_user
    /\ users[ADMIN_ID].blocked
    /\ Len(eff) = 1 /\ IsAlert(eff[1])

Acks(es) == {i \in DOMAIN es : es[i].op = "answer_callback"}
IsRealId(id) == id # "" /\ id # "0"

\* C26: a callback_query with a real id from a user who is not blocked is
\* acknowledged exactly once, and first of all: the acknowledgement is the
\* first thing the handler does towards Telegram, and what follows it, and
\* every table, is the same whether the acknowledgement succeeded or
\* raised.  A callback with no id or with the sentinel "0", and a callback
\* the router re-dispatches to itself (from a callback or from the reply
\* keyboard), is never acknowledged.
C26_AcknowledgedOnce ==
    [][/\ (DOMAIN update' = {"callback_query"})
          => LET cq == update'.callback_query
                 done == _process_update([St EXCEPT !.ack_ok = TRUE], update')
             IN  /\ (cq.from # 0 /\ ~IsBlocked(cq.from) /\ IsRealId(cq.id))
                    => /\ Acks(eff') = {1}
                       /\ eff'[1].a = cq.id /\ ~IsAlert(eff'[1])
                       /\ eff'[1].c = "raised"
                          => /\ Tail(eff') = Tail(done.eff)
                             /\ Becomes([done EXCEPT !.eff = eff'])
                 /\ (~IsBlocked(cq.from) /\ ~IsRealId(cq.id)) => Acks(eff') = {}
       /\ (DOMAIN update' = {"message"}) => Acks(eff') = {}
       /\ \A i \in DOMAIN eff' :
             eff'[i].op = "redispatch" => \A j \in Acks(eff') : j < i]_vars

\* C26 witness: the administrator has pressed the paid-mode switch, the
\* acknowledgement raised, and the handler went on to switch the mode and
\* to re-dispatch the panel.
C26_Witness ==
    /\ DOMAIN update = {"callback_query"}
    /\ update.callback_query.data = Data0("admin_paid_toggle")
    /\ update.callback_query.id = "q"
    /\ Acks(eff) = {1} /\ eff[1].c = "raised"
    /\ PaidModeIsOn
    /\ \E i \in DOMAIN eff : eff[i].op = "redispatch"
    /\ \E i \in DOMAIN eff : eff[i].op = "send" /\ eff[i].a = "admin_panel"

Redispatches(es) == {i \in DOMAIN es : es[i].op = "redispatch"}

\* C27: handling one inbound update re-enters _process_update at most
\* once.  Every re-dispatch is the last thing its handler does, so the
\* calls nest one inside the other and the depth of the recursion is one
\* more than the number of re-dispatches: at most 2.  The callback that is
\* re-dispatched is "admin", "admin_u:<id>" or "admin_blacklist", comes
\* from the administrator, and is handled by a branch that only sends a
\* message.
C27_RedispatchTerminates ==
    [][/\ Cardinality(Redispatches(eff')) <= 1
       /\ \A i \in Redispatches(eff') :
             /\ eff'[i].a \in {"admin", "admin_u", "admin_blacklist"}
             /\ eff'[i].to = ADMIN_ID
             /\ \A j \in (i + 1)..Len(eff') : eff'[j].op = "send"]_vars

\* C27 witness: the administrator has granted user 3 free access; the
\* handler re-dispatched the user's card, which was sent.
C27_Witness ==
    /\ DOMAIN update = {"callback_query"}
    /\ update.callback_query.data = DataN("admin_free_add", 3)
    /\ 3 \in free_users
    /\ Cardinality(Redispatches(eff)) = 1
    /\ \E i \in Redispatches(eff) :
          /\ eff[i].a = "admin_u"
          /\ i < Len(eff) /\ eff[Len(eff)].op = "send" /\ eff[Len(eff)].a = "user_card"

\* A reply-keyboard command the sender of m may use.
AllowedMenu(m) ==
    /\ m.text \in MenuTexts
    /\ m.text \in {TxtAdmin, TxtBlacklist, TxtBroadcast} => m.chat = ADMIN_ID

\* The pending flow that takes the private message m: "access" for the
\* price edit, "broadcast", "support", or "" when none is pending for it.
ConsumingFlow(m) ==
    IF m.chat = ADMIN_ID /\ m.chat \in DOMAIN access_state /\ access_state[m.chat] = "prices"
       /\ m.text # ""
    THEN "access"
    ELSE IF m.chat = ADMIN_ID /\ m.chat \in broadcast_state THEN "broadcast"
    ELSE IF m.chat \in support_state THEN "support"
    ELSE ""

IsFlowEffect(e) == e.op \in {"kv_set", "send"}

\* C28: a private message that one of the pending flows takes (it is no
\* reply-keyboard command the sender may use) clears the flag of that flow
\* before the flow writes a price or sends anything, and leaves the flag
\* clear, so that no second message is taken under the same flag.
C28_FlagClearedFirst ==
    [][(/\ DOMAIN update' = {"message"}
        /\ update'.message.chat_type = "private"
        /\ ~IsBlocked(update'.message.chat)
        /\ ~AllowedMenu(update'.message)
        /\ ConsumingFlow(update'.message) # "")
       => LET m == update'.message
              u == m.chat
              flow == ConsumingFlow(m)
          IN  /\ \E c \in DOMAIN eff' :
                    /\ eff'[c].op = "set_pending" /\ eff'[c].to = u
                    /\ eff'[c].a = flow /\ eff'[c].b = "0"
                    /\ \A i \in DOMAIN eff' : IsFlowEffect(eff'[i]) => c < i
              /\ u \notin DOMAIN access_state' \/ flow # "access"
              /\ u \notin broadcast_state' \/ flow # "broadcast"
              /\ u \notin support_state' \/ flow # "support"]_vars

\* C29: a private message of a user who is not blocked, whose text is a
\* reply-keyboard command the sender may use, is handled by the menu
\* branch and by nothing after it: what the update does is what the
\* sender's tracking (user row, bot_user) followed by the menu command
\* does.  The message and its media are not cached, no pending flow takes
\* it, and nothing of the /start handling is sent.
C29_MenuPreempts ==
    [][(/\ DOMAIN update' = {"message"}
        /\ update'.message.chat_type = "private"
        /\ ~IsBlocked(update'.message.chat)
        /\ AllowedMenu(update'.message))
       => LET m == update'.message
          IN  /\ Becomes(MenuCommand(
                            _db_mark_bot_user(_db_touch_user(St, m.from), m.chat), m))
              /\ UNCHANGED <<messages, media, files, nfile, kv, access_state, OWNER_ID>>
              /\ \A i \in DOMAIN eff' :
                    /\ eff'[i].op \notin {"put_message", "set_media", "download", "kv_set",
                                          "log_event"}
                    /\ eff'[i].op = "send"
                       => eff'[i].a \notin {"support_ticket", "support_thanks", "copy",
                                            "broadcast_done", "prices_updated",
                                            "prices_format", "welcome"}]_vars

\* C29 witness: the price-edit and support flags are set for the
\* administrator, whose Status command has just been answered with the
\* status and nothing else.
C29_Witness ==
    /\ DOMAIN update = {"message"}
    /\ update.message.text = TxtStatus /\ update.message.chat = ADMIN_ID
    /\ ADMIN_ID \in DOMAIN access_state
    /\ ADMIN_ID \in support_state
    /\ Len(eff) = 1 /\ eff[1].op = "send" /\ eff[1].a = "status"
    /\ messages = EmptyTable

\* C30: once the Cancel command of a user who is not blocked has been
\* handled, none of the pending flags is set for that user: not support,
\* not broadcast, not business-bind, not access (the price edit).
C30_CancelClearsAll ==
    [][(/\ DOMAIN update' = {"message"}
        /\ update'.message.chat_type = "private"
        /\ update'.message.text = TxtCancel
        /\ ~IsBlocked(update'.message.chat))
       => LET u == update'.message.chat
          IN  /\ u \notin support_state'
              /\ u \notin broadcast_state'
              /\ u \notin business_bind_state'
              /\ u \notin DOMAIN access_state']_vars

\* The price-edit flow is pending for the administrator and m is a text
\* it takes.
TakenByPriceEdit(m) ==
    /\ m.chat = ADMIN_ID /\ m.chat_type = "private"
    /\ ADMIN_ID \in DOMAIN access_state /\ access_state[ADMIN_ID] = "prices"
    /\ m.text # "" /\ ~AllowedMenu(m)

\* C31: when the price-edit flow takes a text that is no well-formed price
\* list (it names no plan, or gives a plan a price that is no number), the
\* administrator is sent the format hint, no exception leaves the handler,
\* no stored price changes and the price-edit flag stays set.
C31_InvalidPricesPrompt ==
    [][(/\ DOMAIN update' = {"message"}
        /\ TakenByPriceEdit(update'.message)
        /\ LET pr == ParsePrices(update'.message.text)
           IN  pr.bad \/ DOMAIN pr.vals = {})
       => /\ \E i \in DOMAIN eff' :
                eff'[i].op = "send" /\ eff'[i].to = ADMIN_ID /\ eff'[i].a = "prices_format"
          /\ \A i \in DOMAIN eff' : eff'[i].op # "raise"
          /\ kv' = kv
          /\ ADMIN_ID \in DOMAIN access_state' /\ access_state'[ADMIN_ID] = "prices"]_vars

\* The stored owner id, 0 when the kv table has none.
StoredOwner == IF "owner_id" \in DOMAIN kv THEN kv["owner_id"] ELSE 0

\* C32: OWNER_ID, in memory and in storage, is unset or ADMIN_ID in every
\* reachable state, the two agree, and it is only ever set by a private
\* message or a /start whose chat is the administrator's.
C32_OwnerIsAdmin ==
    /\ [](OWNER_ID \in {0, ADMIN_ID} /\ StoredOwner = OWNER_ID)
    /\ [][(OWNER_ID' # OWNER_ID \/ StoredOwner' # StoredOwner)
          => /\ DOMAIN update' = {"message"}
             /\ update'.message.chat = ADMIN_ID
             /\ update'.message.chat_type = "private" \/ update'.message.text = "/start"
             /\ OWNER_ID' = ADMIN_ID]_vars

\* The administrator's private message has registered the owner.
C32_Witness ==
    /\ OWNER_ID = ADMIN_ID /\ StoredOwner = ADMIN_ID
    /\ DOMAIN update = {"message"} /\ update.message.chat = ADMIN_ID

\* The business message m comes from the owner's side of the chat: it has a
\* connection id and a sender who is not the chat.
IsOutgoing(m) == m.cid # "" /\ m.from # 0 /\ m.from # m.chat

\* C33: handling a business message with a connection id, written by a
\* sender who is not the chat, who is a bot user with access, while the
\* mapping is missing or names someone else, leaves the mapping pointing at
\* the sender; a business message whose sender is no bot user, has no
\* access or is the chat leaves the table of connections as it was.
C33_RecoveryPointsAtSender ==
    [][DOMAIN update' = {"business_message"} /\ update'.business_message.cid # ""
       => LET m == update'.business_message
              cid == m.cid
          IN  IF IsOutgoing(m) /\ IsBotUser(m.from) /\ HasAccess(m.from)
              THEN OwnerOf(cid) # m.from
                   => /\ cid \in DOMAIN business_connections'
                      /\ business_connections'[cid].owner_user_id = m.from
              ELSE business_connections' = business_connections]_vars

\* The owner of connection cid after a remap to new_owner that obeys the
\* remap-safety rule: a missing mapping is inserted, and an existing one
\* moves only away from the administrator or from someone who is no bot
\* user, and only to a bot user.
SafeOwnerAfter(cid, new_owner) ==
    LET old == OwnerOf(cid)
    IN  IF old = 0 THEN new_owner
        ELSE IF (old = ADMIN_ID \/ ~IsBotUser(old)) /\ IsBotUser(new_owner) THEN new_owner
        ELSE old

BoundNotices(es, u) ==
    {i \in DOMAIN es : es[i].op = "send" /\ es[i].to = u /\ es[i].a = "business_bound"}

\* C34: an outgoing business message with a connection id, written by a
\* user whose business-bind flag is set, leaves the connection with the
\* owner the remap-safety rule allows, clears the flag and sends that user
\* exactly one confirmation; a business message of a user whose flag is not
\* set sends no confirmation.
C34_ExplicitBinding ==
    [][DOMAIN update' = {"business_message"} /\ IsOutgoing(update'.business_message)
       => LET m == update'.business_message
          IN  IF m.from \in business_bind_state
              THEN /\ m.cid \in DOMAIN business_connections'
                   /\ business_connections'[m.cid].owner_user_id = SafeOwnerAfter(m.cid, m.from)
                   /\ m.from \notin business_bind_state'
                   /\ Cardinality(BoundNotices(eff', m.from)) = 1
              ELSE BoundNotices(eff', m.from) = {}]_vars

\* C35: handling a business_connection update that names connection cid and
\* owner u points the mapping of cid at u when u has access at that time,
\* and leaves the whole table of connections, notified flags included,
\* unchanged when u has none.
C35_ConnectionNeedsAccess ==
    [][DOMAIN update' = {"business_connection"}
       => LET bc == update'.business_connection
          IN  IF HasAccess(bc.user_id)
              THEN /\ bc.cid \in DOMAIN business_connections'
                   /\ business_connections'[bc.cid].owner_user_id = bc.user_id
              ELSE business_connections' = business_connections]_vars

\* The sending of a rescued timer medium.
IsRescue(e) == e.op = "send" /\ e.a = "timer_media"

\* C36: a rescued medium is sent to a recipient about a replied-to message
\* id only when no ephemeral tag of that pair is stored, at most once in a
\* step, with the tag recorded earlier in the same step and stored
\* afterwards; and a stored tag goes away only by the administrator's purge
\* of the cache.
C36_RescueOnce ==
    [][/\ \A i \in DOMAIN eff' :
            IsRescue(eff'[i])
            => /\ <<eff'[i].to, eff'[i].mid, "ephemeral">> \notin forwarded
               /\ <<eff'[i].to, eff'[i].mid, "ephemeral">> \in forwarded'
               /\ \E j \in 1..(i - 1) :
                     /\ eff'[j].op = "forwarded_set" /\ eff'[j].a = "ephemeral"
                     /\ eff'[j].to = eff'[i].to /\ eff'[j].mid = eff'[i].mid
               /\ \A k \in DOMAIN eff' :
                     (IsRescue(eff'[k]) /\ eff'[k].to = eff'[i].to /\ eff'[k].mid = eff'[i].mid)
                     => k = i
       /\ ~(forwarded \subseteq forwarded')
          => /\ DOMAIN update' = {"callback_query"}
             /\ update'.callback_query.data.cmd = "admin_cache_clear_yes"
             /\ update'.callback_query.from = ADMIN_ID]_vars

\* A reply has rescued the photo for user 2 and left the tag.
C36_Witness ==
    /\ DOMAIN update = {"business_message"} /\ update.business_message.reply # <<>>
    /\ \E i \in DOMAIN eff : IsRescue(eff[i]) /\ eff[i].to = 2 /\ eff[i].mid = MaxMsgId
    /\ <<2, MaxMsgId, "ephemeral">> \in forwarded

RECURSIVE MaxUpdateId(_)
\* The largest update_id of a batch, 0 for an empty one.
MaxUpdateId(batch) ==
    IF batch = <<>> THEN 0
    ELSE LET rest == MaxUpdateId(Tail(batch))
         IN  IF Head(batch).update_id > rest THEN Head(batch).update_id ELSE rest

\* C37: when the for loop has processed the last update of a batch, offset
\* is the largest update_id of the batch plus one, in whatever order the
\* response listed the updates; and a getUpdates response that is not ok
\* leaves offset as it was.
C37_OffsetIsMaxPlusOne ==
    [][/\ (updates # <<>> /\ updates' = <<>>) => offset' = MaxUpdateId(inbox) + 1
       /\ (DOMAIN update' = {"getUpdates"} /\ ~update'.getUpdates) => offset' = offset]_vars

\* The kv table holds a price of 0 or less for the plan.
StoredNonPositive(plan) == PriceKey(plan) \in DOMAIN kv /\ kv[PriceKey(plan)] <= 0

\* C38: a plan whose stored price is 0 or less is disabled: _stars_plan
\* returns no plan for it, a buy request for it sends no invoice, a
\* successful payment naming it extends no subscription; and a plan the
\* administrator gives a price of 0 or less in the price-edit flow is
\* disabled afterwards.
C38_NonPositivePriceDisables ==
    /\ [](\A plan \in PlanNames : StoredNonPositive(plan) => _stars_plan(St, plan) = <<>>)
    /\ [][\A plan \in PlanNames :
            /\ (/\ DOMAIN update' = {"callback_query"}
                /\ Prefixed(update'.callback_query.data, "buy")
                /\ update'.callback_query.data.plan = plan
                /\ StoredNonPositive(plan))
               => \A i \in DOMAIN eff' : ~(eff'[i].op = "send" /\ eff'[i].a = "invoice")
            /\ (/\ DOMAIN update' = {"message"}
                /\ update'.message.successful_payment = <<(<<"sub", plan, "2">>)>>
                /\ StoredNonPositive(plan))
               => subscriptions' = subscriptions
            /\ (/\ DOMAIN update' = {"message"}
                /\ TakenByPriceEdit(update'.message)
                /\ plan \in DOMAIN ParsePrices(update'.message.text).vals
                /\ ParsePrices(update'.message.text).vals[plan] <= 0)
               => (_stars_plan(St, plan) = <<>>)']_vars

\* The message rows cached for a chat.
RowsOfChat(chat) == {k \in DOMAIN messages : k[1] = chat}

\* C39: once an event has been handled no chat has more than
\* MAX_MESSAGES_PER_CHAT cached message rows, whatever the events were,
\* edits of messages that were never cached included.
C39_ChatBound ==
    \A k \in DOMAIN messages : Cardinality(RowsOfChat(k[1])) <= MAX_MESSAGES_PER_CHAT

\* C40: in every reachable state each media row names a file that exists:
\* nothing, the rescue send with cleanup included, removes a file and
\* leaves its row.
C40_MediaRowHasFile ==
    \A k \in DOMAIN media : media[k].path \in files

====
